---- MODULE Spec2Model ----
(***************************************************************************)
(* Model of the playing-field gesture state machine of FistFirst Learn.    *)
(*                                                                         *)
(* PlayingField exists in two variants that differ only in the gestures    *)
(* they react to:                                                          *)
(*   "fist"  src/src/playingField.ts  start = upward facing fist,          *)
(*                                    lock  = open hand                    *)
(*   "palm"  src/unnamed/part_000     start = strict front-facing palm,    *)
(*                                    lock  = hand.isFist                  *)
(*                                                                         *)
(* Numbers.  Coordinates are pixels and timestamps are milliseconds, both  *)
(* held as integers.  The screens, palm positions and hand poses below are *)
(* chosen so that every quotient the code forms (80% of the screen, half   *)
(* of the field, the mean of five palm landmarks, the proportional         *)
(* rescale of resize) is an integer; ArithmeticExact states this and is    *)
(* checked with the model.  moveProgress, a fraction elapsed/3000 in the   *)
(* code, is held as its numerator over palmHoldDuration, so the value 1 of *)
(* the code is the value ProgressOne here.  Distances are compared via     *)
(* their squares (sqrt(d2) < 80 iff d2 < 80*80).                           *)
(*                                                                         *)
(* lastPalmPosition is written by update and read only by render; it is    *)
(* not part of the model.                                                  *)
(***************************************************************************)
EXTENDS Integers, Sequences, FiniteSets, TLC

\* ------------------------------------------------------------------------
\* Bounds of the model
\* ------------------------------------------------------------------------

\* Timestamps fed to update never exceed MaxTime.
MaxTime == 4500

\* ------------------------------------------------------------------------
\* Small arithmetic helpers (Math.min / Math.max)
\* ------------------------------------------------------------------------

Min(a, b) == IF a < b THEN a ELSE b

Max(a, b) == IF a > b THEN a ELSE b

Sq(a) == a * a

\* ------------------------------------------------------------------------
\* handTracking.ts : landmark indices and per-hand derived data
\* ------------------------------------------------------------------------

WRIST == 0
THUMB_CMC == 1
THUMB_MCP == 2
THUMB_IP == 3
THUMB_TIP == 4
INDEX_MCP == 5
INDEX_PIP == 6
INDEX_DIP == 7
INDEX_TIP == 8
MIDDLE_MCP == 9
MIDDLE_PIP == 10
MIDDLE_DIP == 11
MIDDLE_TIP == 12
RING_MCP == 13
RING_PIP == 14
RING_DIP == 15
RING_TIP == 16
PINKY_MCP == 17
PINKY_PIP == 18
PINKY_DIP == 19
PINKY_TIP == 20

\* landmarks[i] of a 0-based array held as a 1-based sequence
At(landmarks, i) == landmarks[i + 1]

Pt(px, py, pz) == [x |-> px, y |-> py, z |-> pz]

\* squared 2D distance, the argument of the Math.sqrt calls
Dist2(a, b) == Sq(a.x - b.x) + Sq(a.y - b.y)

\* the four non-thumb fingertips
FingerTips == <<INDEX_TIP, MIDDLE_TIP, RING_TIP, PINKY_TIP>>

FingerMcps == <<INDEX_MCP, MIDDLE_MCP, RING_MCP, PINKY_MCP>>

calculatePalmCenter3D(landmarks) ==
    LET palmIndices == <<0, 5, 9, 13, 17>>
        sumX == At(landmarks, 0).x + At(landmarks, 5).x + At(landmarks, 9).x
                + At(landmarks, 13).x + At(landmarks, 17).x
        sumY == At(landmarks, 0).y + At(landmarks, 5).y + At(landmarks, 9).y
                + At(landmarks, 13).y + At(landmarks, 17).y
        sumZ == At(landmarks, 0).z + At(landmarks, 5).z + At(landmarks, 9).z
                + At(landmarks, 13).z + At(landmarks, 17).z
    IN  Pt(sumX \div Len(palmIndices), sumY \div Len(palmIndices),
           sumZ \div Len(palmIndices))

\* mutant: two curled fingers make a fist
detectFist_TwoFingers(landmarks) ==
    LET palmCenter == calculatePalmCenter3D(landmarks)
        curledFingers ==
            Cardinality({k \in 1..4 :
                Dist2(At(landmarks, FingerTips[k]), palmCenter) < Sq(80)})
    IN  curledFingers >= 2

\* mutant: a fingertip at exactly 80px counts as curled
detectFist_Inclusive(landmarks) ==
    LET palmCenter == calculatePalmCenter3D(landmarks)
        curledFingers ==
            Cardinality({k \in 1..4 :
                Dist2(At(landmarks, FingerTips[k]), palmCenter) <= Sq(80)})
    IN  curledFingers >= 3

detectFist(landmarks) ==
    LET palmCenter == calculatePalmCenter3D(landmarks)
        curledFingers ==
            Cardinality({k \in 1..4 :
                Dist2(At(landmarks, FingerTips[k]), palmCenter) < Sq(80)})
    IN  curledFingers >= 3

\* mag1 < 1 || mag2 < 1, on the squared lengths
tooShortToJudge(mag1Sq, mag2Sq) == mag1Sq < 1 \/ mag2Sq < 1

\* mutant: the straightness threshold taken as 0
belowCosine_Zero(dot, mag1Sq, mag2Sq) == dot < 0

\* dot / (mag1 * mag2) < -0.3, for non-zero lengths:
\* dot < 0 and 100 * dot^2 > 9 * mag1^2 * mag2^2
belowCosine(dot, mag1Sq, mag2Sq) ==
    /\ dot < 0
    /\ Sq(dot) > (9 * mag1Sq * mag2Sq) \div 100

isFingerStraight(mcp, pip, tip) ==
    LET v1 == [x |-> mcp.x - pip.x, y |-> mcp.y - pip.y]
        v2 == [x |-> tip.x - pip.x, y |-> tip.y - pip.y]
        dot == v1.x * v2.x + v1.y * v2.y
        mag1Sq == Sq(v1.x) + Sq(v1.y)
        mag2Sq == Sq(v2.x) + Sq(v2.y)
    IN  IF tooShortToJudge(mag1Sq, mag2Sq)
        THEN FALSE
        ELSE belowCosine(dot, mag1Sq, mag2Sq)

\* pointingAt of a hand that is not pointing
NoPoint == [none |-> TRUE]

\* extension = 2.0
pointingExtension == 2

detectPointing(landmarks) ==
    LET indexTip == At(landmarks, INDEX_TIP)
        indexPip == At(landmarks, INDEX_PIP)
        indexMcp == At(landmarks, INDEX_MCP)
        middleTip == At(landmarks, MIDDLE_TIP)
        ringTip == At(landmarks, RING_TIP)
        pinkyTip == At(landmarks, PINKY_TIP)
        palmCenter == calculatePalmCenter3D(landmarks)
        indexExtended == Dist2(indexTip, palmCenter) > Sq(100)
        othersCurled == /\ Dist2(middleTip, palmCenter) < Sq(90)
                        /\ Dist2(ringTip, palmCenter) < Sq(90)
                        /\ Dist2(pinkyTip, palmCenter) < Sq(90)
        indexStraight == isFingerStraight(indexMcp, indexPip, indexTip)
        isPointing == indexExtended /\ othersCurled /\ indexStraight
        dx == indexTip.x - indexMcp.x
        dy == indexTip.y - indexMcp.y
    IN  IF isPointing
        THEN [isPointing |-> TRUE,
              pointingAt |-> [x |-> indexTip.x + dx * pointingExtension,
                              y |-> indexTip.y + dy * pointingExtension]]
        ELSE [isPointing |-> FALSE, pointingAt |-> NoPoint]

\* ------------------------------------------------------------------------
\* handTracking.ts : HandTracker, the per-hand stores and what detect does
\* with one detected hand.
\* Positions are in pixels, normalized coordinates in 1/NormOne of the
\* canvas, confidences in 1/ConfOne.
\* ------------------------------------------------------------------------

smoothingFactorInv == 5

velocityHistoryLength == 8

landmarkPersistence == 400

maxAge == 150

\* confidence 1.0
ConfOne == 2560

\* normalized coordinate 1.0
NormOne == 1000

HandKeys == {"Left", "Right"}

\* a HandTracker as its field initializers leave it: both maps empty
NewHandTracker ==
    [previousLandmarks |-> [key \in HandKeys |-> <<>>],
     velocityHistory |-> [key \in HandKeys |-> <<>>]]

\* the array with the entries f[1], ..., f[n], every entry computed
Listed(f) == f \o <<>>

StoredLandmark(x, y, z, confidence, timestamp) ==
    [x |-> x, y |-> y, z |-> z, confidence |-> confidence,
     timestamp |-> timestamp]

\* landmarks[i].x >= -0.1 && landmarks[i].x <= 1.1 && (the same for y)
isVisibleLandmark(l) ==
    /\ 10 * l.x >= 0 - NormOne
    /\ 10 * l.x <= 11 * NormOne
    /\ 10 * l.y >= 0 - NormOne
    /\ 10 * l.y <= 11 * NormOne

\* prev * blend + raw * (1 - blend) with blend = smoothingFactor * confidence,
\* written raw + (prev - raw) * blend
Smooth(prev, raw, confidence) ==
    raw + ((prev - raw) * confidence) \div (smoothingFactorInv * ConfOne)

\* mutant: a landmark that is not visible keeps the confidence stored for it
decayedConfidence_Kept(confidence, age) == confidence

\* prevLandmarks[i].confidence * Math.max(0, 1 - age / landmarkPersistence)
decayedConfidence(confidence, age) ==
    (confidence * Max(0, landmarkPersistence - age)) \div landmarkPersistence

\* one turn of the loop of processLandmarksWithPersistence: the entry stored
\* (and reported) for landmark l, given what is stored for it
processLandmark(prevLandmarks, i, l, width, height, timestamp) ==
    LET rawX == (l.x * width) \div NormOne
        rawY == (l.y * height) \div NormOne
        rawZ == (l.z * width) \div NormOne
        recent == /\ i <= Len(prevLandmarks)
                  /\ timestamp - prevLandmarks[i].timestamp
                        < landmarkPersistence
        prev == prevLandmarks[i]
    IN  IF isVisibleLandmark(l)
        THEN IF recent
             THEN StoredLandmark(Smooth(prev.x, rawX, prev.confidence),
                                 Smooth(prev.y, rawY, prev.confidence),
                                 Smooth(prev.z, rawZ, prev.confidence),
                                 ConfOne, timestamp)
             ELSE StoredLandmark(rawX, rawY, rawZ, ConfOne, timestamp)
        ELSE IF recent
             THEN StoredLandmark(prev.x, prev.y, prev.z,
                                 decayedConfidence(prev.confidence,
                                     timestamp - prev.timestamp),
                                 timestamp)
             ELSE StoredLandmark(rawX, rawY, rawZ, ConfOne \div 10, timestamp)

\* the table stored for the hand: newStored
processLandmarksWithPersistence(self, landmarks, handedness, width, height, timestamp) ==
    Listed([i \in 1..Len(landmarks) |->
                processLandmark(self.previousLandmarks[handedness],
                                        i, landmarks[i], width, height,
                                        timestamp)])

\* the positions reported for the hand: processed
Processed(newStored) ==
    Listed([i \in 1..Len(newStored) |->
                Pt(newStored[i].x, newStored[i].y, newStored[i].z)])

\* the table that holds directly observed landmarks
Observed(landmarks) ==
    Listed([i \in 1..Len(landmarks) |->
                StoredLandmark(landmarks[i].x, landmarks[i].y,
                                       landmarks[i].z, ConfOne, 0)])

\* Math.max(0, Math.min(1, 1 - distance / maxDistance)), kept as the square
\* of Math.min(distance, maxDistance): the strength is 0 exactly when this
\* is maxDistance squared, 1 exactly when it is 0
pinchStrengthOf(distance2, maxDistance) == Min(distance2, Sq(maxDistance))

\* hasThumb / hasIndex: the reported position is not (0,0), or the stored
\* landmark has confidence > 0.3
hasTip(tip, storedLandmarks, index) ==
    \/ tip.x # 0
    \/ tip.y # 0
    \/ /\ index + 1 <= Len(storedLandmarks)
       /\ 10 * At(storedLandmarks, index).confidence > 3 * ConfOne

\* mutant: the pinch threshold taken as 90px
detectPinchPartial_Wide(landmarks, storedLandmarks) ==
    LET thumbTip == At(landmarks, THUMB_TIP)
        indexTip == At(landmarks, INDEX_TIP)
        hasThumb == hasTip(thumbTip, storedLandmarks, THUMB_TIP)
        hasIndex == hasTip(indexTip, storedLandmarks, INDEX_TIP)
        pinchThreshold == 90
        maxDistance == 160
    IN  IF hasThumb /\ hasIndex
        THEN [isPinching |-> Dist2(thumbTip, indexTip) < Sq(pinchThreshold),
              pinchStrength |->
                  pinchStrengthOf(Dist2(thumbTip, indexTip), maxDistance)]
        ELSE [isPinching |-> FALSE,
              pinchStrength |-> pinchStrengthOf(Sq(maxDistance), maxDistance)]

detectPinchPartial(landmarks, storedLandmarks) ==
    LET thumbTip == At(landmarks, THUMB_TIP)
        indexTip == At(landmarks, INDEX_TIP)
        hasThumb == hasTip(thumbTip, storedLandmarks, THUMB_TIP)
        hasIndex == hasTip(indexTip, storedLandmarks, INDEX_TIP)
        pinchThreshold == 70
        maxDistance == 160
    IN  IF hasThumb /\ hasIndex
        THEN [isPinching |-> Dist2(thumbTip, indexTip) < Sq(pinchThreshold),
              pinchStrength |->
                  pinchStrengthOf(Dist2(thumbTip, indexTip), maxDistance)]
        ELSE [isPinching |-> FALSE,
              pinchStrength |-> pinchStrengthOf(Sq(maxDistance), maxDistance)]

\* ------------------------------------------------------------------------
\* physics.ts : PhysicsEngine, what updateGrabbing reads of a hand
\* ------------------------------------------------------------------------

\* pinchStrength > 0.5, on the kept square: 1 - d / 160 > 0.5 iff d < 80
strengthAboveHalf(pinchStrength) == 4 * pinchStrength < Sq(160)

\* const isHolding = hand.isPinching || hand.pinchStrength > 0.5
isHolding(hand) == hand.isPinching \/ strengthAboveHalf(hand.pinchStrength)

VelocitySample(x, y, timestamp) == [x |-> x, y |-> y, timestamp |-> timestamp]

\* mutant: entries are dropped by count only, never by age
retainHistory_NoAge(history, timestamp) ==
    IF Len(history) > velocityHistoryLength
    THEN SubSeq(history, Len(history) - velocityHistoryLength + 1,
                Len(history))
    ELSE history

\* mutant: the count cap keeps the oldest entries
retainHistory_KeepOldest(history, timestamp) ==
    LET recent == SelectSeq(history,
                            LAMBDA h : timestamp - h.timestamp < maxAge)
    IN  IF Len(recent) > velocityHistoryLength
        THEN SubSeq(recent, 1, velocityHistoryLength)
        ELSE recent

\* history.filter(h => timestamp - h.timestamp < maxAge), then
\* history.slice(-velocityHistoryLength) when it is longer than that
retainHistory(history, timestamp) ==
    LET recent == SelectSeq(history,
                            LAMBDA h : timestamp - h.timestamp < maxAge)
    IN  IF Len(recent) > velocityHistoryLength
        THEN SubSeq(recent, Len(recent) - velocityHistoryLength + 1,
                    Len(recent))
        ELSE recent

\* mutant: the time between two samples is taken as one frame at least
pairVelocity_FrameFloor(h1, h2) ==
    LET hdt == Max(16, h2.timestamp - h1.timestamp)
    IN  [x |-> ((h2.x - h1.x) * 16) \div hdt,
         y |-> ((h2.y - h1.y) * 16) \div hdt]

\* (h2 - h1) / Math.max(1, h2.timestamp - h1.timestamp) * 16
pairVelocity(h1, h2) ==
    LET hdt == Max(1, h2.timestamp - h1.timestamp)
    IN  [x |-> ((h2.x - h1.x) * 16) \div hdt,
         y |-> ((h2.y - h1.y) * 16) \div hdt]

\* mutant: every pair weighs the same
pairWeight_Flat(i) == 1

\* weight = i / history.length, in units of 1 / history.length
pairWeight(i) == i

\* smoothedX, smoothedY and totalWeight as the loop accumulates them over the
\* pairs i .. history.length - 1, weights in units of 1 / history.length
RECURSIVE smoothedSums(_, _)
smoothedSums(history, i) ==
    IF i >= Len(history)
    THEN [x |-> 0, y |-> 0, totalWeight |-> 0]
    ELSE LET v == pairVelocity(history[i], history[i + 1])
             rest == smoothedSums(history, i + 1)
         IN  [x |-> v.x * pairWeight(i) + rest.x,
              y |-> v.y * pairWeight(i) + rest.y,
              totalWeight |-> pairWeight(i) + rest.totalWeight]

\* history.length < 2
tooShort(history) == Len(history) < 2

\* The smoothed velocity is the fraction x / totalWeight, y / totalWeight;
\* (0,0) is 0 / 1.
calculateVelocityWithHistory(self, handedness, currentPosition, timestamp) ==
    LET history ==
            retainHistory(
                Append(self.velocityHistory[handedness],
                       VelocitySample(currentPosition.x, currentPosition.y,
                                      timestamp)),
                timestamp)
        stored == [self EXCEPT !.velocityHistory[handedness] = history]
        sums == smoothedSums(history, 1)
    IN  IF tooShort(history)
        THEN [self |-> stored,
              velocity |-> [x |-> 0, y |-> 0],
              smoothedVelocity |-> [x |-> 0, y |-> 0, totalWeight |-> 1]]
        ELSE [self |-> stored,
              velocity |-> pairVelocity(history[Len(history) - 1],
                                        history[Len(history)]),
              smoothedVelocity |->
                  IF sums.totalWeight > 0
                  THEN sums
                  ELSE [x |-> 0, y |-> 0, totalWeight |-> 1]]

\* the body of the loop of detect: what the tracker stores and pushes for
\* one detected hand
detectHand(self, handedness, landmarks, width, height, timestamp) ==
    LET newStored ==
            processLandmarksWithPersistence(self, landmarks, handedness,
                                            width, height, timestamp)
        stabilized ==
            [self EXCEPT !.previousLandmarks[handedness] = newStored]
        screenLandmarks == Processed(newStored)
        palmCenter == calculatePalmCenter3D(screenLandmarks)
        motion == calculateVelocityWithHistory(stabilized, handedness,
                                               palmCenter, timestamp)
        pinch == detectPinchPartial(screenLandmarks, newStored)
    IN  [self |-> motion.self,
         hand |-> [handedness |-> handedness,
                   screenLandmarks |-> screenLandmarks,
                   palmCenter |-> palmCenter,
                   velocity |-> motion.velocity,
                   smoothedVelocity |-> motion.smoothedVelocity,
                   isPinching |-> pinch.isPinching,
                   pinchStrength |-> pinch.pinchStrength,
                   isFist |-> detectFist(screenLandmarks)]]

\* The HandData record pushed by HandTracker.detect for a hand whose
\* landmarks are all observed directly, restricted to the fields
\* PlayingField reads.
HandDataOf(handedness, screenLandmarks) ==
    [handedness |-> handedness,
     screenLandmarks |-> screenLandmarks,
     palmCenter |-> calculatePalmCenter3D(screenLandmarks),
     isPinching |-> detectPinchPartial(screenLandmarks,
                                       Observed(screenLandmarks)).isPinching,
     isFist |-> detectFist(screenLandmarks)]

\* ------------------------------------------------------------------------
\* The hands fed to the model: four poses, placed at a palm position.
\* Poses are given for a Right hand relative to the palm centre (the five
\* palm landmarks sum to zero); a Left hand is the mirror image.
\* ------------------------------------------------------------------------

\* Closed fist, knuckles up, wrist below: the upward facing fist.
PoseUpFist ==
    << Pt(0, 80, 0),
       Pt(-40, 40, 0), Pt(-50, 20, 0), Pt(-50, 10, 0), Pt(-50, 0, 0),
       Pt(-30, -20, 0), Pt(-30, -40, 0), Pt(-30, -20, 0), Pt(-30, 10, 0),
       Pt(-10, -20, 0), Pt(-10, -40, 0), Pt(-10, -20, 0), Pt(-10, 10, 0),
       Pt(10, -20, 0), Pt(10, -40, 0), Pt(10, -20, 0), Pt(10, 10, 0),
       Pt(30, -20, 0), Pt(30, -40, 0), Pt(30, -20, 0), Pt(30, 10, 0) >>

\* Closed fist turned over: wrist above the knuckles.
PoseDownFist ==
    << Pt(0, -80, 0),
       Pt(-40, -40, 0), Pt(-50, -20, 0), Pt(-50, -10, 0), Pt(-50, 0, 0),
       Pt(-30, 20, 0), Pt(-30, 40, 0), Pt(-30, 20, 0), Pt(-30, -10, 0),
       Pt(-10, 20, 0), Pt(-10, 40, 0), Pt(-10, 20, 0), Pt(-10, -10, 0),
       Pt(10, 20, 0), Pt(10, 40, 0), Pt(10, 20, 0), Pt(10, -10, 0),
       Pt(30, 20, 0), Pt(30, 40, 0), Pt(30, 20, 0), Pt(30, -10, 0) >>

\* Flat hand, palm to the camera, fingers straight up, thumb out.
PoseOpenPalm ==
    << Pt(0, 80, 0),
       Pt(40, 50, 0), Pt(70, 20, 0), Pt(90, 0, 0), Pt(100, -10, 0),
       Pt(45, -20, 0), Pt(45, -60, -4), Pt(45, -90, -8), Pt(45, -120, -10),
       Pt(15, -20, 0), Pt(15, -60, -4), Pt(15, -90, -8), Pt(15, -130, -10),
       Pt(-15, -20, 0), Pt(-15, -60, -4), Pt(-15, -90, -8), Pt(-15, -120, -10),
       Pt(-45, -20, 0), Pt(-45, -60, -4), Pt(-45, -90, -8), Pt(-45, -100, -10) >>

\* Index and middle finger up, ring and pinky curled: neither a fist nor
\* an open hand.
PoseHalfOpen ==
    << Pt(0, 80, 0),
       Pt(40, 50, 0), Pt(70, 20, 0), Pt(90, 0, 0), Pt(100, -10, 0),
       Pt(45, -20, 0), Pt(45, -60, -4), Pt(45, -90, -8), Pt(45, -120, -10),
       Pt(15, -20, 0), Pt(15, -60, -4), Pt(15, -90, -8), Pt(15, -130, -10),
       Pt(-15, -20, 0), Pt(-15, -40, 0), Pt(-15, -20, 0), Pt(-15, 10, 0),
       Pt(-45, -20, 0), Pt(-45, -40, 0), Pt(-45, -20, 0), Pt(-45, 10, 0) >>

Poses == {PoseUpFist, PoseDownFist, PoseOpenPalm, PoseHalfOpen}

\* the mirror image of a pose (x reflected about the palm centre)
Mirror(pose) == [i \in 1..21 |-> Pt(0 - pose[i].x, pose[i].y, pose[i].z)]

\* a pose moved so that its palm centre is at pos
Place(pose, pos) ==
    [i \in 1..21 |-> Pt(pose[i].x + pos.x, pose[i].y + pos.y, pose[i].z)]

\* the hand the tracker reports for a pose shown by the given hand at pos
Hand(handedness, pose, pos) ==
    HandDataOf(handedness,
               Place(IF handedness = "Right" THEN pose ELSE Mirror(pose), pos))

\* ------------------------------------------------------------------------
\* playingField.ts : gesture classifiers
\* (a mean of four values v compared with a threshold is stated on the sum:
\*  sum/4 < c  iff  sum < 4*c)
\* ------------------------------------------------------------------------

\* number of the four fingertips whose squared distance to the palm centre
\* satisfies Near
CountTips(hand, Near(_)) ==
    Cardinality({k \in 1..4 :
        Near(Dist2(At(hand.screenLandmarks, FingerTips[k]), hand.palmCenter))})

McpYRange(landmarks) ==
    LET ys == {At(landmarks, FingerMcps[k]).y : k \in 1..4}
    IN  (CHOOSE m \in ys : \A v \in ys : m >= v)
        - (CHOOSE m \in ys : \A v \in ys : m <= v)

McpZRange(landmarks) ==
    LET zs == {At(landmarks, FingerMcps[k]).z : k \in 1..4}
    IN  (CHOOSE m \in zs : \A v \in zs : m >= v)
        - (CHOOSE m \in zs : \A v \in zs : m <= v)

isUpwardFacingFist(hand) ==
    LET landmarks == hand.screenLandmarks
        wrist == At(landmarks, WRIST)
        knuckleSumY == At(landmarks, INDEX_MCP).y + At(landmarks, MIDDLE_MCP).y
                       + At(landmarks, RING_MCP).y + At(landmarks, PINKY_MCP).y
        isUpwardFist == 4 * wrist.y > knuckleSumY + 4 * 20
        isLevel == McpYRange(landmarks) < 60
        IsCurled(d2) == d2 < Sq(80)
        curledFingers == CountTips(hand, IsCurled)
        thumbTucked ==
            Dist2(At(landmarks, THUMB_TIP), hand.palmCenter) < Sq(100)
    IN  /\ hand.isFist
        /\ isUpwardFist
        /\ isLevel
        /\ curledFingers >= 3
        /\ thumbTucked

isOpenHand(hand) ==
    LET IsExtended(d2) == d2 > Sq(80)
        extendedFingers == CountTips(hand, IsExtended)
    IN  /\ ~hand.isFist
        /\ extendedFingers >= 3

\* mutant: the bend at the PIP joint is not looked at
isFingerStraightUp_NoBend(hand, k) ==
    LET landmarks == hand.screenLandmarks
        mcp == At(landmarks, FingerMcps[k])
        pip == At(landmarks, FingerMcps[k] + 1)
        dip == At(landmarks, FingerMcps[k] + 2)
        tip == At(landmarks, FingerMcps[k] + 3)
        isPointingUp == tip.y < mcp.y - 40
        isJointAligned == mcp.y > pip.y /\ pip.y > dip.y /\ dip.y > tip.y
        isExtended == Dist2(tip, hand.palmCenter) > Sq(90)
    IN  isPointingUp /\ isJointAligned /\ isExtended

\* one finger of CHECK 4 of isValidOpenPalm; k is 1..4 for index..pinky
isFingerStraightUp(hand, k) ==
    LET landmarks == hand.screenLandmarks
        mcp == At(landmarks, FingerMcps[k])
        pip == At(landmarks, FingerMcps[k] + 1)
        dip == At(landmarks, FingerMcps[k] + 2)
        tip == At(landmarks, FingerMcps[k] + 3)
        isPointingUp == tip.y < mcp.y - 40
        isJointAligned == mcp.y > pip.y /\ pip.y > dip.y /\ dip.y > tip.y
        isExtended == Dist2(tip, hand.palmCenter) > Sq(90)
        dotProduct == (mcp.x - pip.x) * (tip.x - pip.x)
                      + (mcp.y - pip.y) * (tip.y - pip.y)
        isNotBent == dotProduct < 0
    IN  isPointingUp /\ isJointAligned /\ isExtended /\ isNotBent

\* mutant: the thumb is looked for on the side of a right hand whatever the
\* handedness
isValidOpenPalm_RightThumb(hand) ==
    LET landmarks == hand.screenLandmarks
        palmCenter == hand.palmCenter
        wrist == At(landmarks, WRIST)
        isUprightPalm == wrist.y > palmCenter.y + 30
        palmBaseSumZ == At(landmarks, INDEX_MCP).z + At(landmarks, MIDDLE_MCP).z
                        + At(landmarks, RING_MCP).z + At(landmarks, PINKY_MCP).z
        fingertipSumZ == At(landmarks, INDEX_TIP).z + At(landmarks, MIDDLE_TIP).z
                         + At(landmarks, RING_TIP).z + At(landmarks, PINKY_TIP).z
        isFrontOfPalm == fingertipSumZ < palmBaseSumZ + 4 * 10
        thumbTip == At(landmarks, THUMB_TIP)
        pinkyMcp == At(landmarks, PINKY_MCP)
        indexMcp == At(landmarks, INDEX_MCP)
        isRightHand == hand.handedness = "Right"
        thumbOnCorrectSide == thumbTip.x > pinkyMcp.x
        straightFingers ==
            Cardinality({k \in 1..4 : isFingerStraightUp(hand, k)})
        thumbExtended == Dist2(thumbTip, palmCenter) > Sq(70)
        fingerSpread == IF indexMcp.x >= pinkyMcp.x THEN indexMcp.x - pinkyMcp.x
                                                    ELSE pinkyMcp.x - indexMcp.x
        hasPalmWidth == fingerSpread > 70
        isPalmLevel == McpYRange(landmarks) < 50
        isFlatTowardCamera == McpZRange(landmarks) < 40
    IN  /\ ~(hand.isPinching \/ hand.isFist)
        /\ isUprightPalm
        /\ isFrontOfPalm
        /\ thumbOnCorrectSide
        /\ ~(straightFingers < 4)
        /\ thumbExtended
        /\ hasPalmWidth
        /\ isPalmLevel
        /\ isFlatTowardCamera

isValidOpenPalm(hand) ==
    LET landmarks == hand.screenLandmarks
        palmCenter == hand.palmCenter
        wrist == At(landmarks, WRIST)
        isUprightPalm == wrist.y > palmCenter.y + 30
        palmBaseSumZ == At(landmarks, INDEX_MCP).z + At(landmarks, MIDDLE_MCP).z
                        + At(landmarks, RING_MCP).z + At(landmarks, PINKY_MCP).z
        fingertipSumZ == At(landmarks, INDEX_TIP).z + At(landmarks, MIDDLE_TIP).z
                         + At(landmarks, RING_TIP).z + At(landmarks, PINKY_TIP).z
        isFrontOfPalm == fingertipSumZ < palmBaseSumZ + 4 * 10
        thumbTip == At(landmarks, THUMB_TIP)
        pinkyMcp == At(landmarks, PINKY_MCP)
        indexMcp == At(landmarks, INDEX_MCP)
        isRightHand == hand.handedness = "Right"
        thumbOnCorrectSide == IF isRightHand THEN thumbTip.x > pinkyMcp.x
                                             ELSE thumbTip.x < pinkyMcp.x
        straightFingers ==
            Cardinality({k \in 1..4 : isFingerStraightUp(hand, k)})
        thumbExtended == Dist2(thumbTip, palmCenter) > Sq(70)
        fingerSpread == IF indexMcp.x >= pinkyMcp.x THEN indexMcp.x - pinkyMcp.x
                                                    ELSE pinkyMcp.x - indexMcp.x
        hasPalmWidth == fingerSpread > 70
        isPalmLevel == McpYRange(landmarks) < 50
        isFlatTowardCamera == McpZRange(landmarks) < 40
    IN  /\ ~(hand.isPinching \/ hand.isFist)
        /\ isUprightPalm
        /\ isFrontOfPalm
        /\ thumbOnCorrectSide
        /\ ~(straightFingers < 4)
        /\ thumbExtended
        /\ hasPalmWidth
        /\ isPalmLevel
        /\ isFlatTowardCamera

\* ------------------------------------------------------------------------
\* playingField.ts : the PlayingField object
\* An operation maps the object (a record of its fields) to a result
\* [self |-> the object afterwards, notified |-> the sequence of bounds
\* values handed to the onBoundsChanged callback during the operation].
\* ------------------------------------------------------------------------

Variants == {"fist", "palm"}

FieldModes == {"normal", "move-pending", "moving"}

\* 3 seconds to activate move mode
palmHoldDuration == 3000

\* defaultSizeRatio = 0.8, in percent
defaultSizeRatioPct == 80

\* moveProgress = 1, in units of 1/palmHoldDuration
ProgressOne == palmHoldDuration

Rect(x, y, width, height, right, bottom) ==
    [x |-> x, y |-> y, width |-> width, height |-> height,
     right |-> right, bottom |-> bottom]

\* mutant: the rectangle not centred, its margin not halved
calculateDefaultBounds_OffCentre(screenWidth, screenHeight) ==
    LET width == (screenWidth * defaultSizeRatioPct) \div 100
        height == (screenHeight * defaultSizeRatioPct) \div 100
        x == screenWidth - width
        y == screenHeight - height
    IN  Rect(x, y, width, height, x + width, y + height)

calculateDefaultBounds(screenWidth, screenHeight) ==
    LET width == (screenWidth * defaultSizeRatioPct) \div 100
        height == (screenHeight * defaultSizeRatioPct) \div 100
        x == (screenWidth - width) \div 2
        y == (screenHeight - height) \div 2
    IN  Rect(x, y, width, height, x + width, y + height)

\* new PlayingField(screenWidth, screenHeight)
NewPlayingField(v, screenWidth, screenHeight) ==
    [variant |-> v,
     bounds |-> calculateDefaultBounds(screenWidth, screenHeight),
     screenWidth |-> screenWidth,
     screenHeight |-> screenHeight,
     mode |-> "normal",
     palmHoldStartTime |-> 0,
     isVisible |-> TRUE,
     onBoundsChanged |-> FALSE,
     moveProgress |-> 0]

Result(self, notified) == [self |-> self, notified |-> notified]

setOnBoundsChanged(self) ==
    Result([self EXCEPT !.onBoundsChanged = TRUE], <<>>)

\* the calls notifyBoundsChanged makes: one, with this.bounds, when a
\* callback is registered
notifyBoundsChanged(self) ==
    IF self.onBoundsChanged THEN <<self.bounds>> ELSE <<>>

resetToDefault(self) ==
    LET after == [self EXCEPT
                    !.bounds = calculateDefaultBounds(self.screenWidth,
                                                      self.screenHeight),
                    !.mode = "normal",
                    !.moveProgress = 0]
    IN  Result(after, notifyBoundsChanged(after))

\* mutant: only the right edge recomputed
updateComputedBounds_RightOnly(b) == [b EXCEPT !.right = b.x + b.width]

updateComputedBounds(b) ==
    [b EXCEPT !.right = b.x + b.width, !.bottom = b.y + b.height]

\* mutant: the value is kept as it is
Rescale_Unscaled(value, oldScreen, screen) == value

\* rel * screen with rel = value / oldScreen
Rescale(value, oldScreen, screen) == (value * screen) \div oldScreen

resize(self, screenWidth, screenHeight) ==
    LET b == self.bounds
        scaled == Rect(Rescale(b.x, self.screenWidth, screenWidth),
                       Rescale(b.y, self.screenHeight, screenHeight),
                       Rescale(b.width, self.screenWidth, screenWidth),
                       Rescale(b.height, self.screenHeight, screenHeight),
                       0, 0)
        after == [self EXCEPT !.screenWidth = screenWidth,
                              !.screenHeight = screenHeight,
                              !.bounds = updateComputedBounds(scaled)]
    IN  Result(after, notifyBoundsChanged(after))

setVisible(self, visible) ==
    LET shown == [self EXCEPT !.isVisible = visible]
    IN  IF visible THEN resetToDefault(shown) ELSE Result(shown, <<>>)

\* ------------------------------------------------------------------------
\* playingField.ts : update
\* ------------------------------------------------------------------------

NoHand == [handedness |-> "none"]

\* mutant: the first hand of the list, whatever its label
DominantHand_First(hs) == IF Len(hs) > 0 THEN hs[1] ELSE NoHand

\* hands.find(h => h.handedness === 'Right') || hands[0]
DominantHand(hs) ==
    IF \E i \in 1..Len(hs) : hs[i].handedness = "Right"
    THEN hs[CHOOSE i \in 1..Len(hs) :
                /\ hs[i].handedness = "Right"
                /\ \A j \in 1..(i - 1) : hs[j].handedness # "Right"]
    ELSE IF Len(hs) > 0 THEN hs[1] ELSE NoHand

\* the gesture that starts and sustains the hold
\* (isUpwardFist in playingField.ts, isValidPalm in the palm variant)
StartGesture(v, hand) ==
    IF v = "fist" THEN isUpwardFacingFist(hand) ELSE isValidOpenPalm(hand)

\* mutant: a fist locks the field in both variants
LockGesture_FistLocks(v, hand) == hand.isFist

\* the gesture that locks the field
\* (isOpen in playingField.ts, isFist in the palm variant)
LockGesture(v, hand) ==
    IF v = "fist" THEN isOpenHand(hand) ELSE hand.isFist

\* mutant: losing the hand keeps a pending hold
updateNoHand_KeepPending(self) == Result(self, <<>>)

\* mutant: losing the hand ends moving as it ends a pending hold
updateNoHand_CancelMoving(self) ==
    IF self.mode # "normal"
    THEN Result([self EXCEPT !.mode = "normal", !.moveProgress = 0], <<>>)
    ELSE Result(self, <<>>)

\* no hand detected: reset if in pending mode
updateNoHand(self) ==
    IF self.mode = "move-pending"
    THEN Result([self EXCEPT !.mode = "normal", !.moveProgress = 0], <<>>)
    ELSE Result(self, <<>>)

\* mutant: the hold started without recording its start time
updateNormal_NoStamp(self, isStart, currentTime) ==
    IF isStart
    THEN Result([self EXCEPT !.mode = "move-pending"], <<>>)
    ELSE Result(self, <<>>)

\* case 'normal'
updateNormal(self, isStart, currentTime) ==
    IF isStart
    THEN Result([self EXCEPT !.mode = "move-pending",
                             !.palmHoldStartTime = currentTime], <<>>)
    ELSE Result(self, <<>>)

\* Math.min(1, elapsed / palmHoldDuration), in units of 1/palmHoldDuration
holdProgress(elapsed) == Min(ProgressOne, elapsed)

\* mutant: the hold completes only after more than palmHoldDuration
holdComplete_Strict(elapsed) == elapsed > palmHoldDuration

holdComplete(elapsed) == elapsed >= palmHoldDuration

\* mutant: cancelling a pending hold reports the bounds
updatePending_NotifyCancel(self, isStart, currentTime) ==
    IF isStart
    THEN LET elapsed == currentTime - self.palmHoldStartTime
             held == [self EXCEPT !.moveProgress = Min(ProgressOne, elapsed)]
         IN  IF elapsed >= palmHoldDuration
             THEN Result([held EXCEPT !.mode = "moving",
                                      !.moveProgress = ProgressOne], <<>>)
             ELSE Result(held, <<>>)
    ELSE Result([self EXCEPT !.mode = "normal", !.moveProgress = 0],
                IF self.onBoundsChanged THEN <<self.bounds>> ELSE <<>>)

\* case 'move-pending'
updatePending(self, isStart, currentTime) ==
    IF isStart
    THEN LET elapsed == currentTime - self.palmHoldStartTime
             held == [self EXCEPT !.moveProgress = holdProgress(elapsed)]
         IN  IF holdComplete(elapsed)
             THEN Result([held EXCEPT !.mode = "moving",
                                      !.moveProgress = ProgressOne], <<>>)
             ELSE Result(held, <<>>)
    ELSE Result([self EXCEPT !.mode = "normal", !.moveProgress = 0], <<>>)

\* mutant: the lower clamp forgotten
clampToScreen_NoFloor(value, limit) == Min(limit, value)

\* Math.max(0, Math.min(limit, value))
clampToScreen(value, limit) == Max(0, Min(limit, value))

\* mutant: the top-left corner, not the centre, put on the hand
followHand_Corner(self, palmPos) ==
    LET b == self.bounds
        cornered == [b EXCEPT !.x = palmPos.x, !.y = palmPos.y]
        clamped == [cornered EXCEPT
                      !.x = Max(0, Min(self.screenWidth - b.width, cornered.x)),
                      !.y = Max(0, Min(self.screenHeight - b.height, cornered.y))]
    IN  [clamped EXCEPT !.right = clamped.x + clamped.width,
                        !.bottom = clamped.y + clamped.height]

\* the field centred on the hand, clamped to the screen
followHand(self, palmPos) ==
    LET b == self.bounds
        centred == [b EXCEPT !.x = palmPos.x - (b.width \div 2),
                             !.y = palmPos.y - (b.height \div 2)]
        clamped == [centred EXCEPT
                      !.x = clampToScreen(centred.x, self.screenWidth - b.width),
                      !.y = clampToScreen(centred.y, self.screenHeight - b.height)]
    IN  updateComputedBounds(clamped)

\* mutant: locking without notifyBoundsChanged
lockField_Silent(self) ==
    Result([self EXCEPT !.mode = "normal", !.moveProgress = 0], <<>>)

\* mutant: locking leaves the progress of the hold as it is
lockField_KeepProgress(self) ==
    LET after == [self EXCEPT !.mode = "normal"]
    IN  Result(after, notifyBoundsChanged(after))

\* case 'moving', lock gesture shown
lockField(self) ==
    LET after == [self EXCEPT !.mode = "normal", !.moveProgress = 0]
    IN  Result(after, notifyBoundsChanged(after))

\* case 'moving'
updateMoving(self, isLock, palmPos) ==
    IF isLock
    THEN lockField(self)
    ELSE Result([self EXCEPT !.bounds = followHand(self, palmPos)], <<>>)

\* mutant: the break of case 'move-pending' missing, so that the frame
\* falls through into case 'moving'
update_FallThrough(self, hs, currentTime) ==
    LET hand == DominantHand(hs)
    IN  IF ~self.isVisible THEN Result(self, <<>>)
        ELSE IF hand = NoHand THEN updateNoHand(self)
        ELSE LET palmPos == hand.palmCenter
                 isStart == StartGesture(self.variant, hand)
                 isLock == LockGesture(self.variant, hand)
             IN  CASE self.mode = "normal" ->
                        updateNormal(self, isStart, currentTime)
                   [] self.mode = "move-pending" ->
                        updateMoving(
                            updatePending(self, isStart, currentTime).self,
                            isLock, palmPos)
                   [] self.mode = "moving" ->
                        updateMoving(self, isLock, palmPos)

update(self, hs, currentTime) ==
    LET hand == DominantHand(hs)
    IN  IF ~self.isVisible THEN Result(self, <<>>)
        ELSE IF hand = NoHand THEN updateNoHand(self)
        ELSE LET palmPos == hand.palmCenter
                 isStart == StartGesture(self.variant, hand)
                 isLock == LockGesture(self.variant, hand)
             IN  CASE self.mode = "normal" ->
                        updateNormal(self, isStart, currentTime)
                   [] self.mode = "move-pending" ->
                        updatePending(self, isStart, currentTime)
                   [] self.mode = "moving" ->
                        updateMoving(self, isLock, palmPos)

\* ------------------------------------------------------------------------
\* physics.ts : the playing-field bounds and the walls of the PhysicsEngine
\* ------------------------------------------------------------------------

\* A reference to a bounds object together with the object's contents.
\* ref tells whose object it is: "field" is the object the PlayingField
\* holds as this.bounds, "copy" is an object nobody else holds.
BoundsRef(ref, bounds) == [ref |-> ref, bounds |-> bounds]

\* playingFieldBounds = null
NoBounds == [ref |-> "null"]

\* grabbedObjects.get(grabKey) of a hand that grabs nothing
NoGrab == 0

\* new PhysicsEngine(renderer): no walls built yet
NewPhysicsEngine ==
    [playingFieldBounds |-> NoBounds,
     boundariesEnabled |-> TRUE,
     boundaries |-> <<>>,
     handsCollidable |-> TRUE,
     handBodies |-> {},
     objects |-> <<>>,
     objectIdCounter |-> 0,
     grabbedObjects |-> [key \in HandKeys |-> NoGrab]]

\* the rectangle the four wall bodies enclose
Walls(left, top, right, bottom) ==
    [left |-> left, top |-> top, right |-> right, bottom |-> bottom]

\* notified: the calls made to the boundaries callback
enableBoundaries(self, skipCallback, renderer) ==
    IF self.boundariesEnabled THEN Result(self, <<>>)
    ELSE LET b == self.playingFieldBounds
             walls == IF b.ref # "null"
                      THEN Walls(b.bounds.x, b.bounds.y,
                                 b.bounds.right, b.bounds.bottom)
                      ELSE Walls(0, 0, renderer[1], renderer[2])
         IN  Result([self EXCEPT !.boundaries = <<walls>>,
                                 !.boundariesEnabled = TRUE],
                    IF skipCallback THEN <<>> ELSE <<TRUE>>)

disableBoundaries(self) ==
    IF ~self.boundariesEnabled THEN Result(self, <<>>)
    ELSE Result([self EXCEPT !.boundaries = <<>>,
                             !.boundariesEnabled = FALSE],
                <<FALSE>>)

updateBoundaries(self, renderer) ==
    IF ~self.boundariesEnabled THEN self
    ELSE enableBoundaries([self EXCEPT !.boundaries = <<>>,
                                       !.boundariesEnabled = FALSE],
                          TRUE, renderer).self

\* this.playingFieldBounds = bounds: the reference is kept, not a copy
setPlayingFieldBounds(self, bounds, renderer) ==
    updateBoundaries([self EXCEPT !.playingFieldBounds = bounds], renderer)

getPlayingFieldBounds(self) == self.playingFieldBounds

\* ------------------------------------------------------------------------
\* physics.ts : objects, hand bodies and grabbing.
\* objects is the Map of the objects in insertion order, an object's id the
\* n of `ball_n`; velocities of bodies are in 1/2 px per step.
\* ------------------------------------------------------------------------

MAX_VELOCITY == 25

createBall(self, x, y) ==
    [self EXCEPT
        !.objectIdCounter = @ + 1,
        !.objects = Append(@, [id |-> self.objectIdCounter + 1,
                               position |-> [x |-> x, y |-> y],
                               isStatic |-> FALSE,
                               velocity |-> [x |-> 0, y |-> 0]])]

enableHandCollision(self) == [self EXCEPT !.handsCollidable = TRUE]

disableHandCollision(self) ==
    [self EXCEPT !.handsCollidable = FALSE, !.handBodies = {}]

\* index into objects of objects.get(id), 0 when there is none
objectAt(self, id) ==
    IF \E i \in 1..Len(self.objects) : self.objects[i].id = id
    THEN CHOOSE i \in 1..Len(self.objects) : self.objects[i].id = id
    ELSE 0

\* index into objects of the object found, 0 for null: the first in
\* insertion order of those nearest to the point, within maxDistance
findNearestObject(self, point, maxDistance) ==
    LET d2(i) == Sq(self.objects[i].position.x - point.x)
                 + Sq(self.objects[i].position.y - point.y)
        within == {i \in 1..Len(self.objects) : d2(i) < Sq(maxDistance)}
    IN  IF within = {} THEN 0
        ELSE CHOOSE i \in within :
                \A j \in within : d2(i) < d2(j) \/ (d2(i) = d2(j) /\ i <= j)

\* the root of a square
Root(square) == CHOOSE r \in 0..200 : r * r = square

\* the velocity given to a released object
throwVelocity(hand) ==
    LET throwVel == hand.smoothedVelocity
        vx == 3 * throwVel.x
        vy == 3 * throwVel.y
        speed2 == Sq(vx) + Sq(vy)
        clamped == IF speed2 > Sq(2 * MAX_VELOCITY)
                   THEN [x |-> (vx * 2 * MAX_VELOCITY) \div Root(speed2),
                         y |-> (vy * 2 * MAX_VELOCITY) \div Root(speed2)]
                   ELSE [x |-> vx, y |-> vy]
    IN  IF speed2 > Sq(2 * 1) /\ speed2 < Sq(2 * 3)
        THEN [x |-> (clamped.x * 2 * 3) \div Root(speed2),
              y |-> (clamped.y * 2 * 3) \div Root(speed2)]
        ELSE clamped

\* the body of the loop of updateGrabbing, for one hand
updateGrab(self, hand) ==
    LET grabKey == hand.handedness
        currentGrab == self.grabbedObjects[grabKey]
        thumbTip == At(hand.screenLandmarks, THUMB_TIP)
        indexTip == At(hand.screenLandmarks, INDEX_TIP)
        grabPoint == [x |-> (thumbTip.x + indexTip.x) \div 2,
                      y |-> (thumbTip.y + indexTip.y) \div 2]
        nearest == findNearestObject(self, grabPoint, 80)
        obj == objectAt(self, currentGrab)
    IN  IF isHolding(hand)
        THEN IF currentGrab = NoGrab
             THEN IF nearest = 0 THEN self
                  ELSE [self EXCEPT
                          !.grabbedObjects[grabKey] = self.objects[nearest].id,
                          !.objects[nearest].isStatic = TRUE,
                          !.objects[nearest].velocity = [x |-> 0, y |-> 0]]
             ELSE IF obj = 0 THEN self
                  ELSE [self EXCEPT
                          !.objects[obj].position = grabPoint,
                          !.objects[obj].velocity = [x |-> 0, y |-> 0]]
        ELSE IF currentGrab = NoGrab THEN self
             ELSE IF obj = 0
                  THEN [self EXCEPT !.grabbedObjects[grabKey] = NoGrab]
                  ELSE [self EXCEPT
                          !.objects[obj].isStatic = FALSE,
                          !.objects[obj].velocity = throwVelocity(hand),
                          !.grabbedObjects[grabKey] = NoGrab]

RECURSIVE updateGrabbingFrom(_, _, _)
\* the loop of updateGrabbing from the i-th hand on
updateGrabbingFrom(self, hs, i) ==
    IF i > Len(hs) THEN self
    ELSE updateGrabbingFrom(updateGrab(self, hs[i]), hs, i + 1)

updateGrabbing(self, hs) == updateGrabbingFrom(self, hs, 1)

\* handBodies holds the keys of the hands that have collision bodies
updateHandBodies(self, hs) ==
    IF ~self.handsCollidable THEN self
    ELSE updateGrabbing(
             [self EXCEPT
                !.handBodies = {hs[i].handedness : i \in 1..Len(hs)}],
             hs)

\* ------------------------------------------------------------------------
\* ARPlayground : the PlayingField wired to the PhysicsEngine
\* ------------------------------------------------------------------------

\* The engine after a method of the field has run.  A method that assigns
\* to the members of this.bounds changes the object the engine refers to,
\* when that is the field's; a method that assigns a new object to
\* this.bounds leaves the engine with the old one.
afterField(engine, fieldAfter, inPlace) ==
    IF engine.playingFieldBounds.ref # "field" THEN engine
    ELSE IF inPlace
    THEN [engine EXCEPT
            !.playingFieldBounds = BoundsRef("field", fieldAfter.bounds)]
    ELSE [engine EXCEPT
            !.playingFieldBounds = BoundsRef("copy", @.bounds)]

\* playingField.setOnBoundsChanged((bounds) =>
\*     physics.setPlayingFieldBounds(bounds)), for the calls notified
onBoundsChanged(engine, notified, renderer) ==
    IF notified = <<>> THEN engine
    ELSE setPlayingFieldBounds(
             engine, BoundsRef("field", notified[Len(notified)]), renderer)

Wired(fieldAfter, engine, notified) ==
    [field |-> fieldAfter, physics |-> engine, notified |-> notified]

\* a method of the field called, and the bounds callback with it
withCallback(engine, result, inPlace) ==
    Wired(result.self,
          onBoundsChanged(afterField(engine, result.self, inPlace),
                          result.notified,
                          <<result.self.screenWidth, result.self.screenHeight>>),
          result.notified)

\* physics.setPlayingFieldBounds(playingField.getBounds())
setFromGetBounds(wired) ==
    [wired EXCEPT
        !.physics = setPlayingFieldBounds(
                        @, BoundsRef("copy", wired.field.bounds),
                        <<wired.field.screenWidth, wired.field.screenHeight>>)]

handleResize(fieldBefore, engine, width, height) ==
    setFromGetBounds(
        withCallback(engine, resize(fieldBefore, width, height), FALSE))

\* start(), as far as the field and the engine go
start(fieldBefore, engine, width, height) ==
    LET resized == handleResize(fieldBefore, engine, width, height)
    IN  setFromGetBounds(
            withCallback(resized.physics, resetToDefault(resized.field),
                         FALSE))

\* playingField.update(hands, currentTime) of gameLoop
gameLoop(fieldBefore, engine, hs, currentTime) ==
    withCallback(engine, update(fieldBefore, hs, currentTime), TRUE)

\* physics.setOnBoundariesChanged((enabled) =>
\*     playingField.setVisible(enabled)), for the calls notified
onBoundariesChanged(fieldBefore, result) ==
    IF result.notified = <<>> THEN Wired(fieldBefore, result.self, <<>>)
    ELSE withCallback(result.self,
                      setVisible(fieldBefore, result.notified[1]), FALSE)

\* ------------------------------------------------------------------------
\* The inputs of the model
\* ------------------------------------------------------------------------

\* window sizes <<innerWidth, innerHeight>>
Screens == {<<1000, 600>>, <<2000, 1200>>}

\* palm centres: off screen top-left, inside both screens (strictly inside
\* the range of the small one), off screen bottom-right
PalmOffTopLeft == Pt(-100, -100, 0)

PalmInside == Pt(560, 340, 0)

PalmOffBottomRight == Pt(3000, 3000, 0)

PalmPositions == {PalmOffTopLeft, PalmInside, PalmOffBottomRight}

\* A hand in front of the camera: which hand, in which pose, where.
Shown(handedness, pose, pos) ==
    [handedness |-> handedness, pose |-> pose, pos |-> pos]

PoseOf(name) ==
    CASE name = "upFist" -> PoseUpFist
      [] name = "downFist" -> PoseDownFist
      [] name = "openPalm" -> PoseOpenPalm
      [] name = "halfOpen" -> PoseHalfOpen

ShownHands ==
    {Shown(handedness, pose, pos) :
        handedness \in {"Left", "Right"},
        pose \in {"upFist", "downFist", "openPalm", "halfOpen"},
        pos \in PalmPositions}

\* HandTracker.detect on every hand that can be shown
HandDataTable ==
    [sh \in ShownHands |-> Hand(sh.handedness, PoseOf(sh.pose), sh.pos)]

\* the HandData list detect returns for the hands shown
detect(shown) == [i \in 1..Len(shown) |-> HandDataTable[shown[i]]]

\* what a frame can show: no hand, one Right hand, one Left hand, and a
\* Left and a Right hand in either order
Frames ==
    {<<>>}
    \cup {<<Shown("Right", pose, pos)>> :
            pose \in {"upFist", "openPalm", "halfOpen"}, pos \in PalmPositions}
    \cup {<<Shown("Right", "downFist", PalmInside)>>}
    \cup {<<Shown("Left", pose, PalmInside)>> : pose \in {"upFist", "openPalm"}}
    \cup {<<Shown("Left", "upFist", PalmOffTopLeft),
            Shown("Right", "openPalm", PalmInside)>>,
          <<Shown("Right", "openPalm", PalmInside),
            Shown("Left", "upFist", PalmOffTopLeft)>>,
          <<Shown("Left", "openPalm", PalmOffTopLeft),
            Shown("Right", "upFist", PalmInside)>>,
          <<Shown("Right", "upFist", PalmInside),
            Shown("Left", "openPalm", PalmOffTopLeft)>>}

\* time between two frames, in ms
FrameDeltas == {0, 1500, 2999}

\* ------------------------------------------------------------------------
\* State.  The initial state is the one ARPlayground's constructor leaves:
\* the field created for the window and the bounds callback registered.
\* ------------------------------------------------------------------------

VARIABLES
    field,      \* the PlayingField object
    hands,      \* the hands shown to the camera in the last frame
    now,        \* the timestamp of the last frame (currentTime of gameLoop)
    op,         \* history: the operation performed last
    prevMode,   \* history: field.mode before that operation
    cbLog,      \* history: the bounds that operation handed to the callback
    heldSince,  \* history: the timestamp of the first frame of the unbroken
                \* run of frames, up to the last one, whose dominant hand
                \* showed the start gesture; NotHeld when the last frame's
                \* did not
    tracker,    \* the HandTracker object: its two per-hand stores
    physics,    \* the PhysicsEngine object
    frame       \* history: the last call made to the tracker or to a
                \* classifier, with what it was given and what it returned

vars ==
    <<field, hands, now, op, prevMode, cbLog, heldSince, tracker, physics,
      frame>>

\* no call made yet
NoFrame == [call |-> "none"]

NotHeld == 0 - 1

\* the dominant hand of the hands shown is there and shows the start gesture
ShowsStart(v, shown) ==
    /\ DominantHand(detect(shown)) # NoHand
    /\ StartGesture(v, DominantHand(detect(shown)))

\* the dominant hand of the hands shown is there and shows the lock gesture
ShowsLock(v, shown) ==
    /\ DominantHand(detect(shown)) # NoHand
    /\ LockGesture(v, DominantHand(detect(shown)))

\* ShowsStart and ShowsLock of every frame, evaluated once
FrameShows ==
    [v \in Variants, shown \in Frames |->
        [start |-> ShowsStart(v, shown), lock |-> ShowsLock(v, shown)]]

Init ==
    /\ \E v \in Variants, s \in Screens :
          field = setOnBoundsChanged(NewPlayingField(v, s[1], s[2])).self
    /\ hands = <<>>
    /\ now = 0
    /\ op = "new"
    /\ prevMode = "normal"
    /\ cbLog = <<>>
    /\ heldSince = NotHeld
    /\ tracker = NewHandTracker
    /\ physics = NewPhysicsEngine
    /\ frame = NoFrame

Apply(result, name) ==
    /\ UNCHANGED <<tracker, physics, frame>>
    /\ field' = result.self
    /\ cbLog' = result.notified
    /\ prevMode' = field.mode
    /\ op' = name

\* one frame of gameLoop:
\* playingField.update(handTracker.detect(video, currentTime), currentTime)
Update ==
    \E shown \in Frames, d \in FrameDeltas :
        /\ now + d <= MaxTime
        /\ hands' = shown
        /\ now' = now + d
        /\ heldSince' = IF ~FrameShows[field.variant, shown].start THEN NotHeld
                        ELSE IF heldSince = NotHeld THEN now + d
                        ELSE heldSince
        /\ Apply(update(field, detect(shown), now + d), "update")

\* window resize: playingField.resize(innerWidth, innerHeight)
Resize ==
    \E s \in Screens :
        /\ Apply(resize(field, s[1], s[2]), "resize")
        /\ UNCHANGED <<hands, now, heldSince>>

ResetToDefault ==
    /\ Apply(resetToDefault(field), "resetToDefault")
    /\ UNCHANGED <<hands, now, heldSince>>

\* boundaries switched on or off: playingField.setVisible(enabled)
SetVisible ==
    \E visible \in BOOLEAN :
        /\ Apply(setVisible(field, visible),
                 IF visible THEN "setVisible(true)" ELSE "setVisible(false)")
        /\ UNCHANGED <<hands, now, heldSince>>

Next ==
    \/ Update
    \/ Resize
    \/ ResetToDefault
    \/ SetVisible

Spec == Init /\ [][Next]_vars

\* Every quotient formed by the model is exact.
ArithmeticExact ==
    /\ (field.screenWidth * defaultSizeRatioPct) % 100 = 0
    /\ (field.screenHeight * defaultSizeRatioPct) % 100 = 0
    /\ field.bounds.width % 2 = 0
    /\ field.bounds.height % 2 = 0
    /\ (field.screenWidth - field.bounds.width) % 2 = 0
    /\ (field.screenHeight - field.bounds.height) % 2 = 0
    /\ \A s \in Screens :
        /\ (field.bounds.x * s[1]) % field.screenWidth = 0
        /\ (field.bounds.y * s[2]) % field.screenHeight = 0
        /\ (field.bounds.width * s[1]) % field.screenWidth = 0
        /\ (field.bounds.height * s[2]) % field.screenHeight = 0

\* ------------------------------------------------------------------------
\* The stabilizer at work: one hand in front of the camera, its palm and
\* fingers still, its thumb tip and index tip either within the tolerance
\* band of the canvas or far outside it.
\* ------------------------------------------------------------------------

MaxFrames == 4

\* canvas size <<renderer.width, renderer.height>>
RendererSize == <<1000, 1000>>

\* time between two detections, in ms
TrackerGaps == {100, 300, 500}

\* normalized landmarks of the hand, thumb tip and index tip apart
StillHand == Place(PoseHalfOpen, Pt(500, 500, 0))

\* thumb tip and index tip close to each other, inside the tolerance band
\* and far outside of it (normalized, in 1/NormOne)
ThumbIn == Pt(1050, 300, 0)

IndexIn == Pt(1050, 330, 0)

ThumbOut == Pt(21050, 300, 0)

IndexOut == Pt(21050, 330, 0)

TipKinds == {"tipsIn", "thumbOut", "tipsOut"}

\* results.landmarks[i] of the frame
TrackedLandmarks(kind) ==
    Listed([i \in 1..21 |->
                IF i = THUMB_TIP + 1
                THEN (IF kind = "tipsIn" THEN ThumbIn ELSE ThumbOut)
                ELSE IF i = INDEX_TIP + 1
                THEN (IF kind = "tipsOut" THEN IndexOut ELSE IndexIn)
                ELSE StillHand[i]])

\* history: a landmark never observed within the tolerance band
NeverSeen == [at |-> 0 - 1]

\* number of detections made so far
FrameIndex == IF frame.call = "detect" THEN frame.index ELSE 0

\* history: when each landmark was last within the band, and the position
\* reported for it then
LastSeen(landmarks, reported, timestamp) ==
    Listed([i \in 1..21 |->
                IF isVisibleLandmark(landmarks[i])
                THEN [at |-> timestamp, pos |-> reported[i]]
                ELSE IF frame.call = "detect" THEN frame.lastSeen[i]
                ELSE NeverSeen])

\* the PlayingField, left alone
FieldIdle ==
    /\ field = setOnBoundsChanged(NewPlayingField("fist", 1000, 600)).self
    /\ hands = <<>>
    /\ prevMode = "normal"
    /\ cbLog = <<>>
    /\ heldSince = NotHeld

InitTracker ==
    /\ FieldIdle
    /\ now = 0
    /\ op = "new"
    /\ tracker = NewHandTracker
    /\ physics = NewPhysicsEngine
    /\ frame = NoFrame

\* one frame of gameLoop with one Right hand detected:
\* handTracker.detect(video, currentTime)
Detect ==
    \E kind \in TipKinds, gap \in TrackerGaps :
        LET landmarks == TrackedLandmarks(kind)
            result == detectHand(tracker, "Right", landmarks,
                                 RendererSize[1], RendererSize[2], now + gap)
        IN  /\ FrameIndex < MaxFrames
            /\ now' = now + gap
            /\ op' = "detect"
            /\ tracker' = result.self
            /\ frame' = [call |-> "detect",
                         index |-> FrameIndex + 1,
                         landmarks |-> landmarks,
                         hand |-> result.hand,
                         lastSeen |-> LastSeen(landmarks,
                                               result.hand.screenLandmarks,
                                               now + gap)]
            /\ UNCHANGED <<field, physics, hands, prevMode, cbLog, heldSince>>

NextStabilizer == Detect

SpecStabilizer == InitTracker /\ [][NextStabilizer]_vars

\* Every quotient formed by the stabilizer in its first four frames is exact.
StabilizerExact ==
    [][ (op' = "detect" /\ frame'.index <= 4 /\ frame.call = "detect")
            => \A i \in 1..21 :
                LET l == frame'.landmarks[i]
                    prev == tracker.previousLandmarks["Right"][i]
                    age == now' - prev.timestamp
                IN  (age < landmarkPersistence)
                        => IF isVisibleLandmark(l)
                           THEN /\ ((prev.x - l.x) * prev.confidence)
                                      % (smoothingFactorInv * ConfOne) = 0
                                /\ ((prev.y - l.y) * prev.confidence)
                                      % (smoothingFactorInv * ConfOne) = 0
                           ELSE (prev.confidence * (landmarkPersistence - age))
                                    % landmarkPersistence = 0 ]_vars

\* ------------------------------------------------------------------------
\* The velocity tracker at work: the palm of one hand, still or stepping
\* along the diagonal, sampled at once, 50 ms or 150 ms after the sample
\* before.
\* ------------------------------------------------------------------------

MaxVelocityTime == 200

MaxPalmX == 100

\* time between two samples, in ms
VelocityGaps == {0, 50, 150}

\* how far the palm centre moves between two samples
PalmSteps == {Pt(0, 0, 0), Pt(25, 25, 0)}

\* the palm centre of the last sample
PalmNow == IF frame.call = "velocity" THEN frame.position ELSE Pt(0, 0, 0)

\* calculateVelocityWithHistory(handedness, palmCenter, timestamp), as detect
\* calls it for a Right hand
TrackVelocity ==
    \E step \in PalmSteps, gap \in VelocityGaps :
        LET position == Pt(PalmNow.x + step.x, PalmNow.y + step.y, 0)
            result == calculateVelocityWithHistory(tracker, "Right",
                                                   position, now + gap)
            before == tracker.velocityHistory["Right"]
            after == result.self.velocityHistory["Right"]
        IN  /\ now + gap <= MaxVelocityTime
            /\ position.x <= MaxPalmX
            /\ now' = now + gap
            /\ op' = "velocity"
            /\ tracker' = result.self
            /\ frame' = [call |-> "velocity",
                         position |-> position,
                         first |-> (before = <<>>),
                         dropped |-> Len(before) + 1 - Len(after),
                         velocity |-> result.velocity,
                         smoothedVelocity |-> result.smoothedVelocity]
            /\ UNCHANGED <<field, physics, hands, prevMode, cbLog, heldSince>>

NextVelocity == TrackVelocity

SpecVelocity == InitTracker /\ [][NextVelocity]_vars

\* Every quotient formed by the velocity tracker is exact.
VelocityExact ==
    \A i \in 1..(Len(tracker.velocityHistory["Right"]) - 1) :
        LET h1 == tracker.velocityHistory["Right"][i]
            h2 == tracker.velocityHistory["Right"][i + 1]
        IN  /\ ((h2.x - h1.x) * 16) % Max(1, h2.timestamp - h1.timestamp) = 0
            /\ ((h2.y - h1.y) * 16) % Max(1, h2.timestamp - h1.timestamp) = 0

\* ------------------------------------------------------------------------
\* The classifiers at work: one hand, every finger reaching a chosen distance
\* from the palm centre, classified by the tracker and by the playing field.
\* ------------------------------------------------------------------------

\* distance of a fingertip from the palm centre, in px
Reaches == {70, 80, 90, 100, 120}

\* direction of the four fingers from the palm centre, in fifths
FingerDirections == <<Pt(3, -4, 0), Pt(0, -5, 0), Pt(-3, -4, 0), Pt(-4, -3, 0)>>

\* how the index finger is bent: the PIP joint half way from knuckle to tip,
\* moved sideways by 20, 40 or 80 px, or lying on the knuckle
IndexBends == {"straight", "bowed", "bent", "folded", "knuckle"}

\* how the thumb is held
Thumbs == {"out", "tucked"}

Midpoint(a, b) == Pt((a.x + b.x) \div 2, (a.y + b.y) \div 2, (a.z + b.z) \div 2)

\* the four landmarks of a finger reaching r px from the palm centre
Finger(k, r, bend) ==
    LET mcp == PoseOpenPalm[FingerMcps[k] + 1]
        tip == Pt((FingerDirections[k].x * r) \div 5,
                  (FingerDirections[k].y * r) \div 5, 0)
        mid == Midpoint(mcp, tip)
        pip == CASE bend = "straight" -> mid
                 [] bend = "bowed" -> Pt(mid.x + 20, mid.y, 0)
                 [] bend = "bent" -> Pt(mid.x + 40, mid.y, 0)
                 [] bend = "folded" -> Pt(mid.x + 80, mid.y, 0)
                 [] bend = "knuckle" -> mcp
    IN  <<mcp, pip, Midpoint(pip, tip), tip>>

\* a Right hand relative to its palm centre
ShapedPose(reach, bend, thumb) ==
    <<PoseOpenPalm[1]>>
    \o (IF thumb = "out"
        THEN SubSeq(PoseOpenPalm, 2, 5)
        ELSE <<Pt(30, 40, 0), Pt(40, 20, 0), Pt(45, 10, 0), Pt(50, 0, 0)>>)
    \o Finger(1, reach[1], bend)
    \o Finger(2, reach[2], "straight")
    \o Finger(3, reach[3], "straight")
    \o Finger(4, reach[4], "straight")

\* what detect and the playing field make of one hand: the HandData pushed,
\* the pointing gesture, and the verdicts of the field's classifiers
Classified(handedness, landmarks) ==
    LET hand == HandDataOf(handedness, landmarks)
        pointing == detectPointing(landmarks)
        pinch == detectPinchPartial(landmarks, Observed(landmarks))
    IN  [call |-> "classify",
         hand |-> hand,
         pinchStrength |-> pinch.pinchStrength,
         isHolding |-> isHolding(pinch),
         isPointing |-> pointing.isPointing,
         pointingAt |-> pointing.pointingAt,
         isOpenHand |-> isOpenHand(hand),
         isUpwardFacingFist |-> isUpwardFacingFist(hand),
         isValidOpenPalm |-> isValidOpenPalm(hand),
         isStart |-> [v \in Variants |-> StartGesture(v, hand)],
         isLock |-> [v \in Variants |-> LockGesture(v, hand)]]

\* a hand is shown, its landmarks all observed: shaped as a right hand or as
\* its mirror image, and reported as Left or as Right
Classify ==
    \E handedness \in HandKeys, mirrored \in BOOLEAN,
       reach \in [1..4 -> Reaches], bend \in IndexBends, thumb \in Thumbs :
        LET pose == ShapedPose(reach, bend, thumb)
            landmarks == Listed(Place(IF mirrored THEN Mirror(pose) ELSE pose,
                                      PalmInside))
        IN  /\ frame = NoFrame
            /\ op' = "classify"
            /\ frame' = Classified(handedness, landmarks)
            /\ UNCHANGED <<field, physics, hands, now, prevMode, cbLog, heldSince,
                           tracker>>

NextClassifier == Classify

SpecClassifier == InitTracker /\ [][NextClassifier]_vars

\* The palm centre of every hand is a whole number of pixels and the
\* straightness test stays within the integers of the checker.
ClassifierExact ==
    frame.call = "classify" =>
        LET landmarks == frame.hand.screenLandmarks
            mcp == At(landmarks, INDEX_MCP)
            pip == At(landmarks, INDEX_PIP)
            tip == At(landmarks, INDEX_TIP)
        IN  /\ (At(landmarks, WRIST).x + At(landmarks, 5).x
                + At(landmarks, 9).x + At(landmarks, 13).x
                + At(landmarks, 17).x) % 5 = 0
            /\ (At(landmarks, WRIST).y + At(landmarks, 5).y
                + At(landmarks, 9).y + At(landmarks, 13).y
                + At(landmarks, 17).y) % 5 = 0
            /\ Dist2(mcp, pip) <= 15000
            /\ Dist2(tip, pip) <= 15000

\* ------------------------------------------------------------------------
\* The strict palm classifier at work: an open palm held up to the camera,
\* every measure the classifier takes set just inside or just outside its
\* threshold.
\* ------------------------------------------------------------------------

\* y of the wrist, relative to the knuckle line at -20
WristHeights == {80, 20, 15}

\* z of the four fingertips, the knuckles being at 0 on average
TipDepths == {-10, 10}

\* where the thumb tip is
ThumbTips == {"out", "towardsIndex", "overPinky", "close"}

\* how the index finger is held
IndexShapes == {"up", "low", "flatTip", "short", "rightAngle"}

\* half the difference in y, and in z, between index and pinky knuckle
KnuckleTilts == {24, 25}

KnuckleTwists == {19, 20}

\* x of the index knuckle, the pinky knuckle being opposite
KnuckleHalfWidths == {36, 35}

\* a Right hand seen from the palm side, relative to the middle of its
\* knuckle line
PalmPose(wristY, tipZ, thumb, index, tilt, twist, halfWidth) ==
    LET thumbTip == CASE thumb = "out" -> Pt(100, -10, 0)
                      [] thumb = "towardsIndex" -> Pt(90, -80, 0)
                      [] thumb = "overPinky" -> Pt(0 - halfWidth, -110, 0)
                      [] thumb = "close" -> Pt(56, -42, 0)
        indexMcp == Pt(halfWidth, -20 + tilt, 0 - twist)
        pinkyMcp == Pt(0 - halfWidth, -20 - tilt, twist)
        indexFinger ==
            CASE index = "up" ->
                     <<indexMcp, Pt(45, -80, -4), Pt(45, -100, -8),
                       Pt(45, -120, tipZ)>>
              [] index = "low" ->
                     <<indexMcp, Pt(60, -10, -4), Pt(80, -25, -8),
                       Pt(100, indexMcp.y - 40, tipZ)>>
              [] index = "flatTip" ->
                     <<indexMcp, Pt(45, -80, -4), Pt(45, -120, -8),
                       Pt(45, -120, tipZ)>>
              [] index = "short" ->
                     <<indexMcp, Pt(50, -30, -4), Pt(52, -50, -8),
                       Pt(54, -72, tipZ)>>
              [] index = "rightAngle" ->
                     <<indexMcp, Pt(halfWidth + 50, indexMcp.y - 50, -4),
                       Pt(halfWidth + 20, indexMcp.y - 80, -8),
                       Pt(halfWidth, indexMcp.y - 100, tipZ)>>
    IN  <<Pt(0, wristY, 0),
          Pt(40, 50, 0), Pt(70, 20, 0), Pt(90, 0, 0), thumbTip>>
        \o indexFinger
        \o <<Pt(15, -20, 0), Pt(15, -60, -4), Pt(15, -90, -8),
             Pt(15, -130, tipZ),
             Pt(-15, -20, 0), Pt(-15, -60, -4), Pt(-15, -90, -8),
             Pt(-15, -120, tipZ),
             pinkyMcp, Pt(-45, -60, -4), Pt(-45, -90, -8),
             Pt(-45, -110, tipZ)>>

\* the palm is shown: as a right hand or as its mirror image, reported as
\* Left or as Right
ClassifyPalm ==
    \E handedness \in HandKeys, mirrored \in BOOLEAN,
       wristY \in WristHeights, tipZ \in TipDepths, thumb \in ThumbTips,
       index \in IndexShapes, tilt \in KnuckleTilts, twist \in KnuckleTwists,
       halfWidth \in KnuckleHalfWidths :
        LET pose == PalmPose(wristY, tipZ, thumb, index, tilt, twist,
                             halfWidth)
            landmarks == Listed(Place(IF mirrored THEN Mirror(pose) ELSE pose,
                                      PalmInside))
        IN  /\ frame = NoFrame
            /\ op' = "classify"
            /\ frame' = Classified(handedness, landmarks)
            /\ UNCHANGED <<field, physics, hands, now, prevMode, cbLog, heldSince,
                           tracker>>

NextPalm == ClassifyPalm

SpecPalm == InitTracker /\ [][NextPalm]_vars

\* ------------------------------------------------------------------------
\* The pinch measure at work: an open hand whose thumb tip is put at a chosen
\* offset from the index tip.
\* ------------------------------------------------------------------------

\* thumb tip minus index tip; the distances are 0, 50, 69.4, 70, 75, 79.4,
\* 80, 100, 159.4, 160 and 200 px
PinchOffsets ==
    {Pt(0, 0, 0), Pt(30, 40, 0), Pt(41, 56, 0), Pt(42, 56, 0), Pt(45, 60, 0),
     Pt(47, 64, 0), Pt(48, 64, 0), Pt(60, 80, 0), Pt(95, 128, 0),
     Pt(96, 128, 0), Pt(120, 160, 0)}

\* a Right hand, index finger reaching r px, thumb tip at the offset from the
\* index tip
PinchPose(r, offset) ==
    LET pose == ShapedPose([k \in 1..4 |-> IF k = 1 THEN r ELSE 120],
                           "straight", "out")
        indexTip == pose[INDEX_TIP + 1]
    IN  [pose EXCEPT ![THUMB_TIP + 1] = Pt(indexTip.x + offset.x,
                                           indexTip.y + offset.y, 0)]

ClassifyPinch ==
    \E handedness \in HandKeys, mirrored \in BOOLEAN, r \in Reaches,
       offset \in PinchOffsets :
        LET pose == PinchPose(r, offset)
            landmarks == Listed(Place(IF mirrored THEN Mirror(pose) ELSE pose,
                                      PalmInside))
        IN  /\ frame = NoFrame
            /\ op' = "classify"
            /\ frame' = Classified(handedness, landmarks)
            /\ UNCHANGED <<field, physics, hands, now, prevMode, cbLog, heldSince,
                           tracker>>

NextPinch == ClassifyPinch

SpecPinch == InitTracker /\ [][NextPinch]_vars

\* ------------------------------------------------------------------------
\* The running playground: the field and the engine wired together, from
\* the state start() leaves.  The objects of the world are not followed.
\* ------------------------------------------------------------------------

InitPlayground ==
    /\ \E v \in Variants, s \in Screens :
          LET constructed == setOnBoundsChanged(
                                 NewPlayingField(v, s[1], s[2])).self
              started == start(constructed, NewPhysicsEngine, s[1], s[2])
          IN  /\ field = started.field
              /\ physics = started.physics
    /\ hands = <<>>
    /\ now = 0
    /\ op = "start"
    /\ prevMode = "normal"
    /\ cbLog = <<>>
    /\ heldSince = NotHeld
    /\ tracker = NewHandTracker
    /\ frame = NoFrame

ApplyWired(wired, name) ==
    /\ UNCHANGED <<tracker, frame>>
    /\ field' = wired.field
    /\ physics' = wired.physics
    /\ cbLog' = wired.notified
    /\ prevMode' = field.mode
    /\ op' = name

\* one frame of gameLoop
GameLoop ==
    \E shown \in Frames, d \in FrameDeltas :
        /\ now + d <= MaxTime
        /\ hands' = shown
        /\ now' = now + d
        /\ heldSince' = IF ~FrameShows[field.variant, shown].start THEN NotHeld
                        ELSE IF heldSince = NotHeld THEN now + d
                        ELSE heldSince
        /\ ApplyWired(gameLoop(field, physics, detect(shown), now + d),
                      "gameLoop")

\* the window resized
HandleResize ==
    \E s \in Screens :
        /\ ApplyWired(handleResize(field, physics, s[1], s[2]),
                      "handleResize")
        /\ UNCHANGED <<hands, now, heldSince>>

\* the assistant's enableBoundaries command, enable = true
EnableBoundaries ==
    /\ ApplyWired(
           onBoundariesChanged(
               field,
               enableBoundaries(physics, FALSE,
                                <<field.screenWidth, field.screenHeight>>)),
           "enableBoundaries")
    /\ UNCHANGED <<hands, now, heldSince>>

\* the assistant's enableBoundaries command, enable = false
DisableBoundaries ==
    /\ ApplyWired(onBoundariesChanged(field, disableBoundaries(physics)),
                  "disableBoundaries")
    /\ UNCHANGED <<hands, now, heldSince>>

NextPlayground ==
    \/ GameLoop
    \/ HandleResize
    \/ EnableBoundaries
    \/ DisableBoundaries

SpecPlayground == InitPlayground /\ [][NextPlayground]_vars

\* ------------------------------------------------------------------------
\* Grabbing: two balls, and hands that pinch, hold loosely or are open, their
\* index tip at one place.  The objects are moved by the hands only.
\* ------------------------------------------------------------------------

\* where the index tip of a hand shown is
GrabPlace == Pt(560, 340, 0)

\* thumb tip minus index tip: 0px apart (pinching), 72.8px (not pinching,
\* pinch strength above one half), 100px (strength below one half)
GripOffset(grip) ==
    CASE grip = "pinch" -> Pt(0, 0, 0)
      [] grip = "loose" -> Pt(44, 58, 0)
      [] grip = "open" -> Pt(60, 80, 0)

\* smoothed velocities of a hand that lets go, in px per frame
ThrowVelocities == {[x |-> 1, y |-> 0], [x |-> 20, y |-> 0]}

Gripping(handedness, grip, velocity) ==
    [handedness |-> handedness, grip |-> grip, velocity |-> velocity]

GrippingHands ==
    {Gripping(handedness, grip, [x |-> 0, y |-> 0]) :
        handedness \in HandKeys, grip \in {"pinch", "loose"}}
    \cup {Gripping(handedness, "open", velocity) :
            handedness \in HandKeys, velocity \in ThrowVelocities}

\* the landmarks of a hand shown: an open hand, its index tip at the place
\* and its thumb tip at the offset of the grip from it, on the thumb's side
GripLandmarks(g) ==
    LET open == IF g.handedness = "Left" THEN Mirror(PoseOpenPalm)
                                         ELSE PoseOpenPalm
        indexTip == At(open, INDEX_TIP)
        offset == GripOffset(g.grip)
    IN  Listed([i \in 1..21 |->
                  IF i = THUMB_TIP + 1
                  THEN Pt(IF g.handedness = "Left"
                          THEN GrabPlace.x - offset.x
                          ELSE GrabPlace.x + offset.x,
                          GrabPlace.y + offset.y, 0)
                  ELSE Pt(open[i].x - indexTip.x + GrabPlace.x,
                          open[i].y - indexTip.y + GrabPlace.y,
                          open[i].z)])

\* the HandData detect pushes for a hand shown, restricted to the fields
\* updateHandBodies reads
GripData(g) ==
    LET pinch == detectPinchPartial(GripLandmarks(g),
                                    Observed(GripLandmarks(g)))
    IN  [handedness |-> g.handedness,
         screenLandmarks |-> GripLandmarks(g),
         isPinching |-> pinch.isPinching,
         pinchStrength |-> pinch.pinchStrength,
         velocity |-> g.velocity,
         smoothedVelocity |-> g.velocity]

GripDataTable == [g \in GrippingHands |-> GripData(g)]

\* what a frame can show: no hand, one hand, a Left and a Right hand
GrabFrames ==
    {<<>>}
    \cup {<<g>> : g \in GrippingHands}
    \cup {<<g, h>> : g \in {l \in GrippingHands : l.handedness = "Left"},
                     h \in {r \in GrippingHands : r.handedness = "Right"}}

\* an engine with a ball where the index tips are shown and a ball 30px
\* to the right of it and below
InitGrab ==
    /\ FieldIdle
    /\ now = 0
    /\ op = "new"
    /\ tracker = NewHandTracker
    /\ frame = NoFrame
    /\ physics =
          createBall(createBall(NewPhysicsEngine, GrabPlace.x, GrabPlace.y),
                     GrabPlace.x + 30, GrabPlace.y + 30)

\* detect's callback: physics.updateHandBodies(hands)
HandsDetected ==
    \E shown \in GrabFrames :
        /\ hands' = shown
        /\ op' = "updateHandBodies"
        /\ physics' = updateHandBodies(
                          physics,
                          [i \in 1..Len(shown) |-> GripDataTable[shown[i]]])
        /\ UNCHANGED <<field, now, prevMode, cbLog, heldSince, tracker, frame>>

EnableHandCollision ==
    /\ op' = "enableHandCollision"
    /\ physics' = enableHandCollision(physics)
    /\ UNCHANGED <<field, hands, now, prevMode, cbLog, heldSince, tracker,
                   frame>>

DisableHandCollision ==
    /\ op' = "disableHandCollision"
    /\ physics' = disableHandCollision(physics)
    /\ UNCHANGED <<field, hands, now, prevMode, cbLog, heldSince, tracker,
                   frame>>

NextGrab ==
    \/ HandsDetected
    \/ EnableHandCollision
    \/ DisableHandCollision

SpecGrab == InitGrab /\ [][NextGrab]_vars

\* ------------------------------------------------------------------------
\* Vocabulary of the claims
\* ------------------------------------------------------------------------

\* the step is an update, i.e. one frame
IsUpdate == op' = "update"

\* the dominant hand of the frame just fed shows the start / lock gesture
StartShown == FrameShows[field.variant, hands'].start

LockShown == FrameShows[field.variant, hands'].lock

\* a dominant hand is present in the frame just fed
HandPresent == Len(hands') > 0

\* currentTime - holdStartTime of the frame just fed
Elapsed == now' - field.palmHoldStartTime

\* clamp01(elapsed / 3000), in units of 1/palmHoldDuration
Clamp01Of(elapsed) ==
    IF elapsed <= 0 THEN 0
    ELSE IF elapsed >= 3000 THEN ProgressOne
    ELSE elapsed

\* clamp(value, lo, hi)
ClampBetween(value, lo, hi) ==
    IF value < lo THEN lo ELSE IF value > hi THEN hi ELSE value

\* ------------------------------------------------------------------------
\* C1  hold progress and confirmation
\* ------------------------------------------------------------------------

\* what C1 says of an update in move-pending whose dominant hand shows the
\* start gesture
C1_HoldStep ==
    /\ field'.moveProgress = Clamp01Of(Elapsed)
    /\ (field'.mode = "moving") <=> (Elapsed >= 3000)
    /\ (field'.mode = "moving") => (field'.moveProgress = ProgressOne)
    /\ (field'.mode # "moving") => (field'.mode = "move-pending")

\* moving is entered by an update only from move-pending, with the start
\* gesture shown and at least 3000 ms elapsed ("never earlier")
C1_NeverEarlier ==
    (IsUpdate /\ field.mode # "moving" /\ field'.mode = "moving")
        => (field.mode = "move-pending" /\ StartShown /\ Elapsed >= 3000)

\* while a hold lasts (the mode does not fall back to normal) progress does
\* not decrease, and it is always within [0,1]
C1_Monotone ==
    /\ (field'.mode # "normal") => (field'.moveProgress >= field.moveProgress)
    /\ 0 <= field'.moveProgress
    /\ field'.moveProgress <= ProgressOne

\* C1 as stated: every update made in mode move-pending whose dominant hand
\* shows the start gesture sets progress to clamp01(elapsed/3000) and enters
\* moving, with progress 1, exactly when elapsed >= 3000; progress never
\* decreases over a hold and stays within [0,1].
C1_AsStated ==
    [][ /\ (IsUpdate /\ field.mode = "move-pending" /\ StartShown)
            => C1_HoldStep
        /\ C1_NeverEarlier
        /\ C1_Monotone ]_vars

\* C1 amended: the same, for updates made while the field is visible (an
\* update of a hidden field returns at once).
C1_HoldProgress ==
    [][ /\ (IsUpdate /\ field.isVisible /\ field.mode = "move-pending"
                     /\ StartShown)
            => C1_HoldStep
        /\ C1_NeverEarlier
        /\ C1_Monotone ]_vars

\* a hold confirmed on the frame where exactly 3000 ms have elapsed
C1_Witness ==
    /\ op = "update"
    /\ prevMode = "move-pending"
    /\ field.mode = "moving"
    /\ field.moveProgress = ProgressOne
    /\ now - field.palmHoldStartTime = 3000

\* ------------------------------------------------------------------------
\* C2  cancellation, no partial credit
\* ------------------------------------------------------------------------

C2_CancelStep ==
    /\ field'.mode = "normal"
    /\ field'.moveProgress = 0
    /\ field'.bounds = field.bounds
    /\ cbLog' = <<>>

\* a hold starts from the timestamp of the frame that starts it, and moving
\* is entered only at the end of an unbroken run of frames showing the
\* start gesture that spans at least 3000 ms
C2_FreshHold ==
    /\ (IsUpdate /\ field.mode = "normal" /\ field'.mode = "move-pending")
        => (field'.palmHoldStartTime = now')
    /\ (field.mode # "moving" /\ field'.mode = "moving")
        => (heldSince' # NotHeld /\ now' - heldSince' >= 3000)

\* C2 as stated: every update made in mode move-pending whose dominant hand
\* does not show the start gesture (or with no hand) sets mode normal and
\* progress 0, keeps the bounds and calls no callback; a later hold starts
\* afresh, so moving needs one unbroken run of at least 3000 ms.
C2_AsStated ==
    [][ /\ (IsUpdate /\ field.mode = "move-pending" /\ ~StartShown)
            => C2_CancelStep
        /\ C2_FreshHold ]_vars

\* C2 amended: the same, for updates made while the field is visible.
C2_Cancellation ==
    [][ /\ (IsUpdate /\ field.isVisible /\ field.mode = "move-pending"
                     /\ ~StartShown)
            => C2_CancelStep
        /\ C2_FreshHold ]_vars

\* a hold of 2999 ms cancelled by a frame whose hand shows another pose
C2_Witness ==
    /\ op = "update"
    /\ prevMode = "move-pending"
    /\ field.mode = "normal"
    /\ field.moveProgress = 0
    /\ Len(hands) > 0
    /\ now - field.palmHoldStartTime = 2999
    /\ cbLog = <<>>

\* ------------------------------------------------------------------------
\* C3  lock / commit
\* ------------------------------------------------------------------------

C3_LockStep ==
    /\ field'.mode = "normal"
    /\ field'.moveProgress = 0
    /\ field'.bounds = field.bounds
    /\ cbLog' = <<field.bounds>>

\* once locked (mode normal) an update calls no callback, whatever it shows
C3_NoFurther ==
    (IsUpdate /\ field.mode = "normal") => (cbLog' = <<>>)

\* C3 as stated: every update made in mode moving whose dominant hand shows
\* the lock gesture sets mode normal and progress 0, keeps the bounds and
\* calls the callback exactly once, with those bounds; later frames showing
\* the lock gesture call nothing.
C3_AsStated ==
    [][ /\ (IsUpdate /\ field.mode = "moving" /\ LockShown) => C3_LockStep
        /\ C3_NoFurther ]_vars

\* C3 amended: the same, for updates made while the field is visible.
C3_LockCommit ==
    [][ /\ (IsUpdate /\ field.isVisible /\ field.mode = "moving" /\ LockShown)
            => C3_LockStep
        /\ C3_NoFurther ]_vars

\* a field moved to the top-left corner and then locked there
C3_Witness ==
    /\ op = "update"
    /\ prevMode = "moving"
    /\ field.mode = "normal"
    /\ field.bounds.x = 0
    /\ field.bounds.y = 0
    /\ cbLog = <<field.bounds>>

\* ------------------------------------------------------------------------
\* C4  the field follows the hand
\* ------------------------------------------------------------------------

\* the palm centre of the dominant hand of the frame just fed
PalmOfFrame == DominantHand(detect(hands')).palmCenter

\* doubled, so that width/2 needs no division
C4_FollowStep ==
    /\ 2 * field'.bounds.x =
          ClampBetween(2 * PalmOfFrame.x - field.bounds.width, 0,
                       2 * (field.screenWidth - field.bounds.width))
    /\ 2 * field'.bounds.y =
          ClampBetween(2 * PalmOfFrame.y - field.bounds.height, 0,
                       2 * (field.screenHeight - field.bounds.height))
    /\ field'.bounds.width = field.bounds.width
    /\ field'.bounds.height = field.bounds.height
    /\ field'.mode = "moving"

\* C4 as stated: every update made in mode moving with a dominant hand that
\* does not show the lock gesture puts the field at
\* clamp(palm - size/2, 0, screen - size), size kept, mode still moving.
C4_AsStated ==
    [][ (IsUpdate /\ field.mode = "moving" /\ HandPresent /\ ~LockShown)
            => C4_FollowStep ]_vars

\* C4 amended: the same, for updates made while the field is visible.
C4_Follow ==
    [][ (IsUpdate /\ field.isVisible /\ field.mode = "moving" /\ HandPresent
                  /\ ~LockShown)
            => C4_FollowStep ]_vars

\* a field following a hand to a place strictly inside the clamp range
C4_Witness ==
    /\ op = "update"
    /\ prevMode = "moving"
    /\ field.mode = "moving"
    /\ field.isVisible
    /\ Len(hands) > 0
    /\ 2 * field.bounds.x = 2 * PalmInside.x - field.bounds.width
    /\ field.bounds.x > 0
    /\ field.bounds.x < field.screenWidth - field.bounds.width

\* ------------------------------------------------------------------------
\* C5  the field stays on the screen
\* ------------------------------------------------------------------------

\* C5: in every reachable state the bounds lie within the screen:
\* 0 <= x, 0 <= y, right <= screenWidth, bottom <= screenHeight.
C5_OnScreen ==
    /\ 0 <= field.bounds.x
    /\ 0 <= field.bounds.y
    /\ field.bounds.right <= field.screenWidth
    /\ field.bounds.bottom <= field.screenHeight

\* a moving field dragged by a palm beyond the bottom-right corner of the
\* screen, held at the far edges
C5_Witness ==
    /\ op = "update"
    /\ prevMode = "moving"
    /\ field.mode = "moving"
    /\ Len(hands) = 1
    /\ hands[1].pos = PalmOffBottomRight
    /\ hands[1].pos.x > field.screenWidth
    /\ field.bounds.right = field.screenWidth
    /\ field.bounds.bottom = field.screenHeight

\* ------------------------------------------------------------------------
\* C6  occlusion freeze
\* ------------------------------------------------------------------------

\* C6: every update with an empty hand list made in mode moving leaves the
\* whole field as it is (mode moving, progress 1, bounds) and calls no
\* callback, so the next frame with a hand starts from the same field.
C6_Freeze ==
    [][ (IsUpdate /\ field.mode = "moving" /\ hands' = <<>>)
            => /\ field' = field
               /\ field'.mode = "moving"
               /\ field'.moveProgress = ProgressOne
               /\ cbLog' = <<>> ]_vars

\* a visible field, moved to the top-left corner, then a frame with no hand
C6_Witness ==
    /\ op = "update"
    /\ prevMode = "moving"
    /\ field.mode = "moving"
    /\ field.isVisible
    /\ hands = <<>>
    /\ field.bounds.x = 0
    /\ field.bounds.y = 0

\* ------------------------------------------------------------------------
\* C7  when the bounds callback is called
\* ------------------------------------------------------------------------

\* C7: the callback is called only by a resize, by a reset, or by the
\* update that locks a moving field; never by any other update.
C7_CallbackOnly ==
    [][ (cbLog' # <<>>)
            => \/ op' \in {"resize", "resetToDefault", "setVisible(true)"}
               \/ /\ IsUpdate
                  /\ field.mode = "moving"
                  /\ field'.mode = "normal"
                  /\ LockShown ]_vars

\* an update that moved the field to the top-left corner and called nothing
C7_Witness ==
    /\ op = "update"
    /\ prevMode = "moving"
    /\ field.mode = "moving"
    /\ Len(hands) > 0
    /\ field.bounds.x = 0
    /\ cbLog = <<>>

\* ------------------------------------------------------------------------
\* C8  which updates change the bounds
\* ------------------------------------------------------------------------

\* C8: an update made in mode normal or move-pending leaves the bounds
\* unchanged, and no update changes width or height.
C8_BoundsFrame ==
    [][ IsUpdate
            => /\ (field.mode \in {"normal", "move-pending"})
                    => (field'.bounds = field.bounds)
               /\ field'.bounds.width = field.bounds.width
               /\ field'.bounds.height = field.bounds.height ]_vars

\* a pending hold continued by a hand far from the centre of the field,
\* the field still where the constructor or a reset put it
C8_Witness ==
    /\ op = "update"
    /\ prevMode = "move-pending"
    /\ field.mode = "move-pending"
    /\ field.moveProgress > 0
    /\ Len(hands) = 1
    /\ hands[1].pos = PalmOffTopLeft
    /\ 10 * field.bounds.x = field.screenWidth

\* ------------------------------------------------------------------------
\* C9  the transitions of the mode
\* ------------------------------------------------------------------------

\* the changes of mode C9 allows, and how hold and reset come about
C9_Allowed ==
    /\ field'.mode \in FieldModes
    /\ (field'.mode # field.mode)
        => \/ /\ field.mode = "normal"
              /\ field'.mode = "move-pending"
              /\ IsUpdate
           \/ /\ field.mode = "move-pending"
              /\ field'.mode \in {"moving", "normal"}
           \/ /\ field.mode = "moving"
              /\ field'.mode = "normal"
    /\ (IsUpdate /\ field.mode = "normal" /\ field'.mode = "move-pending")
        => (StartShown /\ field'.palmHoldStartTime = now')
    /\ (op' \in {"resetToDefault", "setVisible(true)"})
        => (field'.mode = "normal")

\* C9 as stated: the mode is one of the three and changes only along the
\* listed edges; an update made in mode normal enters move-pending exactly
\* when the dominant hand shows the start gesture, recording the frame's
\* timestamp; a reset forces normal.
C9_AsStated ==
    [][ /\ C9_Allowed
        /\ (IsUpdate /\ field.mode = "normal" /\ StartShown)
            => (field'.mode = "move-pending") ]_vars

\* C9 amended: the same, the hold starting exactly when the start gesture is
\* shown while the field is visible.
C9_Transitions ==
    [][ /\ C9_Allowed
        /\ (IsUpdate /\ field.isVisible /\ field.mode = "normal" /\ StartShown)
            => (field'.mode = "move-pending") ]_vars

\* a hold started at a later frame, its timestamp recorded
C9_Witness ==
    /\ op = "update"
    /\ prevMode = "normal"
    /\ field.mode = "move-pending"
    /\ now > 0
    /\ field.palmHoldStartTime = now

\* ------------------------------------------------------------------------
\* C10  resetToDefault
\* ------------------------------------------------------------------------

\* C10: a reset puts the field at the centred rectangle of 80% of the
\* screen, sets mode normal and progress 0, and calls the callback once.
C10_Reset ==
    [][ (op' \in {"resetToDefault", "setVisible(true)"})
            => /\ 10 * field'.bounds.width = 8 * field'.screenWidth
               /\ 10 * field'.bounds.height = 8 * field'.screenHeight
               /\ 10 * field'.bounds.x = field'.screenWidth
               /\ 10 * field'.bounds.y = field'.screenHeight
               /\ field'.screenWidth = field.screenWidth
               /\ field'.screenHeight = field.screenHeight
               /\ field'.mode = "normal"
               /\ field'.moveProgress = 0
               /\ cbLog' = <<field'.bounds>> ]_vars

\* a reset of a field that was moving
C10_Witness ==
    /\ op = "resetToDefault"
    /\ prevMode = "moving"
    /\ field.mode = "normal"
    /\ field.moveProgress = 0
    /\ Len(cbLog) = 1

\* ------------------------------------------------------------------------
\* C11  which hand drives the field
\* ------------------------------------------------------------------------

\* the hand, among the hands shown, that C11 names: the first one labelled
\* Right if there is one, else the first of the list
C11_Driver(shown) ==
    LET rights == {i \in 1..Len(shown) : shown[i].handedness = "Right"}
    IN  IF rights # {}
        THEN shown[CHOOSE i \in rights : \A j \in rights : i <= j]
        ELSE shown[1]

\* the start gesture of every hand that can be shown, evaluated once
C11_HandStarts ==
    [v \in Variants, sh \in ShownHands |-> StartGesture(v, HandDataTable[sh])]

\* the frame just fed holds a Right hand that does not show the start
\* gesture and a Left hand that shows it
C11_OnlyLeftStarts ==
    /\ \E i \in 1..Len(hands') :
          /\ hands'[i].handedness = "Right"
          /\ ~C11_HandStarts[field.variant, hands'[i]]
    /\ \E i \in 1..Len(hands') :
          /\ hands'[i].handedness = "Left"
          /\ C11_HandStarts[field.variant, hands'[i]]
    /\ \A i \in 1..Len(hands') :
          hands'[i].handedness = "Right"
              => ~C11_HandStarts[field.variant, hands'[i]]

\* C11: an update with hands does to the field, and to the callback, what
\* an update with the driving hand alone would do (the Right hand if there
\* is one, else the first hand); so a frame whose Left hand shows the start
\* gesture while its Right hand does not never starts a hold, never
\* advances one and never confirms one.
C11_DominantHand ==
    [][ (IsUpdate /\ hands' # <<>>)
            => /\ field' = update(field, detect(<<C11_Driver(hands')>>),
                                  now').self
               /\ cbLog' = update(field, detect(<<C11_Driver(hands')>>),
                                  now').notified
               /\ (C11_OnlyLeftStarts /\ field.mode # "moving")
                    => /\ field'.mode # "moving"
                       /\ (field'.mode = "move-pending") => (field' = field)
                       /\ field.isVisible => (field'.mode = "normal") ]_vars

\* a pending hold of the fist variant cancelled by a frame whose first hand
\* is a Left upward fist and whose second hand is a Right open palm
C11_Witness ==
    /\ op = "update"
    /\ field.variant = "fist"
    /\ field.isVisible
    /\ prevMode = "move-pending"
    /\ field.mode = "normal"
    /\ hands = <<Shown("Left", "upFist", PalmOffTopLeft),
                 Shown("Right", "openPalm", PalmInside)>>

\* ------------------------------------------------------------------------
\* Vocabulary of the stabilizer claims
\* ------------------------------------------------------------------------

\* the step is a detection
IsDetect == op' = "detect"

\* landmark i is within the tolerance band in the frame just detected
SeenNow(i) == isVisibleLandmark(frame'.landmarks[i])

\* when landmark i was last within the band before the frame just detected
\* (NeverSeen.at if it never was), and the position reported for it then
SeenBefore(i) == IF frame.call = "detect" THEN frame.lastSeen[i] ELSE NeverSeen

\* what the tracker stores for landmark i after / before the detection
StoredAfter(i) == tracker'.previousLandmarks["Right"][i]

StoredBefore(i) == tracker.previousLandmarks["Right"][i]

\* the position reported for landmark i by the detection
Reported(i) == frame'.hand.screenLandmarks[i]

\* the raw screen position of landmark i in the frame just detected
RawPosition(i) ==
    Pt((frame'.landmarks[i].x * RendererSize[1]) \div NormOne,
       (frame'.landmarks[i].y * RendererSize[2]) \div NormOne,
       (frame'.landmarks[i].z * RendererSize[1]) \div NormOne)

\* ------------------------------------------------------------------------
\* C12  stabilizer persistence
\* ------------------------------------------------------------------------

C13_AsStated ==
    [][ IsDetect
            => \A i \in 1..21 :
                (/\ ~SeenNow(i)
                 /\ SeenBefore(i) # NeverSeen
                 /\ now' - SeenBefore(i).at >= 400)
                    => /\ Reported(i) = RawPosition(i)
                       /\ 10 * StoredAfter(i).confidence = ConfOne ]_vars

\* ------------------------------------------------------------------------
\* C18  pinch on unusable landmarks
\* ------------------------------------------------------------------------

\* landmark i is unusable in the frame just detected: not within the band,
\* and not stored with a confidence above 0.3
C18_Unusable(i) ==
    /\ ~SeenNow(i)
    /\ ~(10 * StoredAfter(i).confidence > 3 * ConfOne)

\* C18 as stated: when the thumb tip or the index tip is unusable the
\* detection reports no pinch and strength 0.
C18_AsStated ==
    [][ (IsDetect /\ (C18_Unusable(THUMB_TIP + 1)
                        \/ C18_Unusable(INDEX_TIP + 1)))
            => /\ ~frame'.hand.isPinching
               /\ frame'.hand.pinchStrength = pinchStrengthOf(Sq(160), 160)
      ]_vars

\* ------------------------------------------------------------------------
\* Vocabulary of the velocity claims
\* ------------------------------------------------------------------------

\* the step is a call of calculateVelocityWithHistory
IsVelocity == op' = "velocity"

\* the history of the hand before and after the call
HistoryBefore == tracker.velocityHistory["Right"]

HistoryAfter == tracker'.velocityHistory["Right"]

\* the call returned (0,0) for both velocities
ZeroVelocity(f) ==
    /\ f.velocity = [x |-> 0, y |-> 0]
    /\ f.smoothedVelocity.x = 0
    /\ f.smoothedVelocity.y = 0

\* C14: calculateVelocityWithHistory returns velocity (0,0) and smoothed
\* velocity (0,0) whenever the history holds fewer than 2 samples after the
\* current sample was appended and the history pruned, and that is the case
\* exactly on the first call and on a call 150 ms or more after every sample
\* retained before.
C14_ZeroOnShortHistory ==
    [][IsVelocity =>
        /\ (Len(HistoryAfter) < 2 => ZeroVelocity(frame'))
        /\ (Len(HistoryAfter) < 2 <=>
                \A k \in 1..Len(HistoryBefore) :
                    now' - HistoryBefore[k].timestamp >= 150)]_vars

\* a call 150 ms after two retained samples, the palm having moved, returned
\* zero velocities
C14_Witness ==
    /\ frame.call = "velocity"
    /\ ~frame.first
    /\ frame.dropped >= 2
    /\ frame.position.x > 0
    /\ Len(tracker.velocityHistory["Right"]) = 1
    /\ ZeroVelocity(frame)

\* the sample the call appended
SampleNow == VelocitySample(frame'.position.x, frame'.position.y, now')

\* C15: after every call of calculateVelocityWithHistory, timestamps never
\* decreasing from call to call, the history of the hand ends with the current
\* sample, has 1 to 8 entries, none of them 150 ms old or older, is ordered by
\* non-decreasing timestamp, and is what is left of the history before plus
\* the current sample when only oldest entries are dropped.
C15_HistoryBound ==
    [][IsVelocity =>
        LET appended == Append(HistoryBefore, SampleNow)
        IN  /\ now' >= now
            /\ Len(HistoryAfter) >= 1
            /\ Len(HistoryAfter) <= 8
            /\ HistoryAfter[Len(HistoryAfter)] = SampleNow
            /\ \A k \in 1..Len(HistoryAfter) :
                   now' - HistoryAfter[k].timestamp < 150
            /\ \A k \in 1..(Len(HistoryAfter) - 1) :
                   HistoryAfter[k].timestamp <= HistoryAfter[k + 1].timestamp
            /\ HistoryAfter = SubSeq(appended,
                                     Len(appended) - Len(HistoryAfter) + 1,
                                     Len(appended))]_vars

\* a call found 8 samples in the window, the oldest of them older than the
\* current one, and dropped exactly that one
C15_Witness ==
    /\ frame.call = "velocity"
    /\ frame.dropped = 1
    /\ Len(tracker.velocityHistory["Right"]) = 8
    /\ tracker.velocityHistory["Right"][1].timestamp < now
    /\ tracker.velocityHistory["Right"][1].x < frame.position.x

Abs(a) == IF a < 0 THEN 0 - a ELSE a

\* f[1] + ... + f[n]
RECURSIVE SumOver(_, _)
SumOver(f, n) == IF n = 0 THEN 0 ELSE f[n] + SumOver(f, n - 1)

\* the history a call left behind, and its length n
Retained == tracker.velocityHistory["Right"]

\* v_i = (p_i+1 - p_i) / max(1, dt_i) * 16, oldest pair first
PairVelocities ==
    [i \in 1..(Len(Retained) - 1) |->
        LET dt == Max(1, Retained[i + 1].timestamp - Retained[i].timestamp)
        IN  [x |-> ((Retained[i + 1].x - Retained[i].x) * 16) \div dt,
             y |-> ((Retained[i + 1].y - Retained[i].y) * 16) \div dt]]

\* sum of i * v_i and of v_i over the pairs, and sum of the weights i (the
\* weights i / n in units of 1 / n)
WeightedSumX == SumOver([i \in 1..(Len(Retained) - 1) |-> i * PairVelocities[i].x], Len(Retained) - 1)

WeightedSumY == SumOver([i \in 1..(Len(Retained) - 1) |-> i * PairVelocities[i].y], Len(Retained) - 1)

PlainSumX == SumOver([i \in 1..(Len(Retained) - 1) |-> PairVelocities[i].x], Len(Retained) - 1)

PlainSumY == SumOver([i \in 1..(Len(Retained) - 1) |-> PairVelocities[i].y], Len(Retained) - 1)

WeightSum == SumOver([i \in 1..(Len(Retained) - 1) |-> i], Len(Retained) - 1)

\* smoothedVelocity = sum of (i/n) * v_i divided by the sum of the i/n
IsWeightedMean(smoothed) ==
    /\ smoothed.totalWeight > 0
    /\ smoothed.x * WeightSum = WeightedSumX * smoothed.totalWeight
    /\ smoothed.y * WeightSum = WeightedSumY * smoothed.totalWeight

\* The smoothed velocity is smaller in magnitude than the unweighted mean of
\* the pair velocities.  The palm moves along the diagonal, both components
\* of every velocity are equal, and the magnitudes compare as the components.
BelowPlainMean(smoothed) ==
    /\ smoothed.x = smoothed.y
    /\ PlainSumX = PlainSumY
    /\ Abs(smoothed.x) * (Len(Retained) - 1)
           < Abs(PlainSumX) * smoothed.totalWeight

\* the most recent pair is at rest
LastPairAtRest ==
    /\ PairVelocities[Len(Retained) - 1].x = 0
    /\ PairVelocities[Len(Retained) - 1].y = 0

\* every pair but the most recent one has a large velocity: 8 px per 16 ms,
\* the velocity of the moving palm, or more
EarlyPairsLarge ==
    \A i \in 1..(Len(Retained) - 2) :
        Abs(PairVelocities[i].x) >= 8

\* every pair but the most recent one has the same large velocity
EarlyPairsSteady ==
    /\ EarlyPairsLarge
    /\ \A i \in 1..(Len(Retained) - 2) : PairVelocities[i] = PairVelocities[1]

\* C16, as stated: the smoothed velocity of a history of n >= 2 samples is the
\* mean of the pair velocities v_i weighted by i/n, and whenever the early
\* pairs have a large velocity and the most recent pair is at rest it is
\* strictly smaller in magnitude than the unweighted mean of the v_i.
C16_AsStated ==
    (frame.call = "velocity" /\ Len(Retained) >= 2) =>
        /\ IsWeightedMean(frame.smoothedVelocity)
        /\ (Len(Retained) >= 3 /\ EarlyPairsLarge /\ LastPairAtRest)
               => BelowPlainMean(frame.smoothedVelocity)

\* C16, amended: the smoothed velocity of a history of n >= 2 samples is the
\* mean of the pair velocities v_i weighted by i/n, and whenever the early
\* pairs all have the same large velocity and the most recent pair is at rest
\* it is strictly smaller in magnitude than the unweighted mean of the v_i.
C16_RecencyWeighting ==
    (frame.call = "velocity" /\ Len(Retained) >= 2) =>
        /\ IsWeightedMean(frame.smoothedVelocity)
        /\ (Len(Retained) >= 3 /\ EarlyPairsSteady /\ LastPairAtRest)
               => BelowPlainMean(frame.smoothedVelocity)

\* the palm moved steadily over three pairs and then stopped
C16_Witness ==
    /\ frame.call = "velocity"
    /\ Len(Retained) = 5
    /\ EarlyPairsSteady
    /\ LastPairAtRest
    /\ frame.smoothedVelocity.x > 0
    /\ BelowPlainMean(frame.smoothedVelocity)

\* ------------------------------------------------------------------------
\* Vocabulary of the classifier claims
\* ------------------------------------------------------------------------

IsClassified == frame.call = "classify"

\* squared distance of the k-th non-thumb fingertip from the palm centre
TipDistance2(k) ==
    Dist2(At(frame.hand.screenLandmarks, FingerTips[k]), frame.hand.palmCenter)

TipsWithin80 == Cardinality({k \in 1..4 : TipDistance2(k) < 80 * 80})

TipsBeyond80 == Cardinality({k \in 1..4 : TipDistance2(k) > 80 * 80})

\* C17: for every landmark set and palm centre, hand.isFist (at least 3 of
\* the 4 non-thumb fingertips within 80px of the palm centre) and the open
\* hand classifier (not a fist and at least 3 of the 4 fingertips farther than
\* 80px) are never both true.
C17_FistOrOpen ==
    IsClassified =>
        /\ frame.hand.isFist <=> TipsWithin80 >= 3
        /\ frame.isOpenHand <=> (~frame.hand.isFist /\ TipsBeyond80 >= 3)
        /\ ~(frame.hand.isFist /\ frame.isOpenHand)

\* two fingertips within 80px, two at exactly 80px: neither a fist nor an
\* open hand
C17_Witness ==
    /\ IsClassified
    /\ TipsWithin80 = 2
    /\ TipsBeyond80 = 0
    /\ ~frame.hand.isFist
    /\ ~frame.isOpenHand

\* the joints of the index finger
IndexMcp == At(frame.hand.screenLandmarks, INDEX_MCP)

IndexPip == At(frame.hand.screenLandmarks, INDEX_PIP)

IndexTip == At(frame.hand.screenLandmarks, INDEX_TIP)

\* the joint vectors PIP -> MCP and PIP -> TIP: their squared lengths and
\* their dot product
ToMcp2 == Dist2(IndexMcp, IndexPip)

ToTip2 == Dist2(IndexTip, IndexPip)

JointDot ==
    (IndexMcp.x - IndexPip.x) * (IndexTip.x - IndexPip.x)
    + (IndexMcp.y - IndexPip.y) * (IndexTip.y - IndexPip.y)

\* both joint vectors at least 1px long and the cosine of the angle between
\* them below -0.3, that is below -3/10
IndexIsStraight ==
    /\ ToMcp2 >= 1
    /\ ToTip2 >= 1
    /\ JointDot < 0
    /\ Sq(JointDot) > (9 * ToMcp2 * ToTip2) \div 100

OtherHand(handedness) == IF handedness = "Right" THEN "Left" ELSE "Right"

\* the mirror image of a hand: every landmark and the palm centre reflected
\* in x about the vertical axis x = 500, y and z kept, handedness swapped, isPinching and isFist kept
MirrorImage(hand) ==
    [hand EXCEPT
        !.handedness = OtherHand(hand.handedness),
        !.palmCenter = Pt(1000 - hand.palmCenter.x,
                          hand.palmCenter.y, hand.palmCenter.z),
        !.screenLandmarks =
            [i \in 1..21 |-> Pt(1000 - hand.screenLandmarks[i].x,
                                hand.screenLandmarks[i].y,
                                hand.screenLandmarks[i].z)]]

ThumbX(hand) == At(hand.screenLandmarks, THUMB_TIP).x

PinkyMcpX(hand) == At(hand.screenLandmarks, PINKY_MCP).x

\* C20: isValidOpenPalm gives the same result on every hand and on its mirror
\* image; an accepted Right hand has thumb.x > pinkyMcp.x, and its mirror
\* image, a Left hand with thumb.x < pinkyMcp.x, is accepted as well.
C20_MirrorSymmetry ==
    IsClassified =>
        /\ isValidOpenPalm(frame.hand) = frame.isValidOpenPalm
        /\ isValidOpenPalm(MirrorImage(frame.hand)) = frame.isValidOpenPalm
        /\ (frame.isValidOpenPalm /\ frame.hand.handedness = "Right") =>
               /\ ThumbX(frame.hand) > PinkyMcpX(frame.hand)
               /\ MirrorImage(frame.hand).handedness = "Left"
               /\ ThumbX(MirrorImage(frame.hand))
                      < PinkyMcpX(MirrorImage(frame.hand))
               /\ isValidOpenPalm(MirrorImage(frame.hand))

\* a Right hand with the thumb on the side of larger x is accepted, and so
\* is its mirror image
C20_Witness ==
    /\ IsClassified
    /\ frame.hand.handedness = "Right"
    /\ ThumbX(frame.hand) > PinkyMcpX(frame.hand)
    /\ frame.isValidOpenPalm
    /\ isValidOpenPalm(MirrorImage(frame.hand))

\* a hand rejected for the side of its thumb alone: accepted once relabelled
C20_WrongSide ==
    /\ IsClassified
    /\ ~frame.isValidOpenPalm
    /\ isValidOpenPalm([frame.hand EXCEPT
                            !.handedness = OtherHand(frame.hand.handedness)])

\* ------------------------------------------------------------------------
\* The checks of the strict open palm, on the hand that was classified
\* ------------------------------------------------------------------------

PalmAt(i) == At(frame.hand.screenLandmarks, i)

\* sum of a coordinate over four landmarks
SumZ(indices) ==
    PalmAt(indices[1]).z + PalmAt(indices[2]).z + PalmAt(indices[3]).z
    + PalmAt(indices[4]).z

\* largest minus smallest of a set of numbers
Spread(values) ==
    (CHOOSE m \in values : \A v \in values : m >= v)
    - (CHOOSE m \in values : \A v \in values : m <= v)

\* 1: the hand is flagged neither pinching nor fist
NotPinchNorFist == ~frame.hand.isPinching /\ ~frame.hand.isFist

\* 2: the wrist is below the palm centre by the margin of 30px
WristBelowPalm == PalmAt(WRIST).y > frame.hand.palmCenter.y + 30

\* 3: the mean fingertip z is below the mean MCP z plus the tolerance of 10
TipsInFront == SumZ(FingerTips) < SumZ(FingerMcps) + 4 * 10

\* 4: the thumb is on the side of the handedness
ThumbOnItsSide ==
    \/ /\ frame.hand.handedness = "Right"
       /\ PalmAt(THUMB_TIP).x > PalmAt(PINKY_MCP).x
    \/ /\ frame.hand.handedness # "Right"
       /\ PalmAt(THUMB_TIP).x < PalmAt(PINKY_MCP).x

\* one finger straight and up: tip above the MCP by 40px, joints ordered in
\* y, tip farther than 90px from the palm centre, not bent at the PIP joint
StraightAndUp(mcp) ==
    /\ PalmAt(mcp + 3).y < PalmAt(mcp).y - 40
    /\ PalmAt(mcp).y > PalmAt(mcp + 1).y
    /\ PalmAt(mcp + 1).y > PalmAt(mcp + 2).y
    /\ PalmAt(mcp + 2).y > PalmAt(mcp + 3).y
    /\ Dist2(PalmAt(mcp + 3), frame.hand.palmCenter) > 90 * 90
    /\ (PalmAt(mcp).x - PalmAt(mcp + 1).x)
           * (PalmAt(mcp + 3).x - PalmAt(mcp + 1).x)
       + (PalmAt(mcp).y - PalmAt(mcp + 1).y)
           * (PalmAt(mcp + 3).y - PalmAt(mcp + 1).y) < 0

\* 5: all four fingers are straight and up
FourFingersUp == \A k \in 1..4 : StraightAndUp(FingerMcps[k])

\* 6: the thumb tip is farther than 70px from the palm centre
ThumbAway == Dist2(PalmAt(THUMB_TIP), frame.hand.palmCenter) > 70 * 70

\* 7: the y-range of the four MCPs is below 50
KnucklesLevel == Spread({PalmAt(FingerMcps[k]).y : k \in 1..4}) < 50

\* 8: the z-range of the four MCPs is below 40
KnucklesFlat == Spread({PalmAt(FingerMcps[k]).z : k \in 1..4}) < 40

EightChecks ==
    /\ NotPinchNorFist
    /\ WristBelowPalm
    /\ TipsInFront
    /\ ThumbOnItsSide
    /\ FourFingersUp
    /\ ThumbAway
    /\ KnucklesLevel
    /\ KnucklesFlat

\* the check the code makes besides: index and pinky MCP more than 70px
\* apart in x
PalmWideEnough ==
    Abs(PalmAt(INDEX_MCP).x - PalmAt(PINKY_MCP).x) > 70

\* C21, as stated: isValidOpenPalm returns false whenever one of the eight
\* checks fails and true whenever all eight hold.
C21_AsStated == IsClassified => (frame.isValidOpenPalm <=> EightChecks)

\* C21, amended: isValidOpenPalm returns false whenever one of the eight
\* checks fails or the palm is not wider than 70px, and true whenever all
\* eight hold of a palm wider than 70px.
C21_StrictPalm ==
    IsClassified =>
        (frame.isValidOpenPalm <=> (EightChecks /\ PalmWideEnough))

\* a palm is accepted, three measures just inside their thresholds
C21_Witness ==
    /\ IsClassified
    /\ frame.isValidOpenPalm
    /\ EightChecks
    /\ Spread({PalmAt(FingerMcps[k]).y : k \in 1..4}) = 48
    /\ Spread({PalmAt(FingerMcps[k]).z : k \in 1..4}) = 38
    /\ Abs(PalmAt(INDEX_MCP).x - PalmAt(PINKY_MCP).x) = 72

\* a palm passing the eight checks is rejected for its width alone
C21_NarrowPalm ==
    /\ IsClassified
    /\ EightChecks
    /\ ~PalmWideEnough
    /\ ~frame.isValidOpenPalm

\* ------------------------------------------------------------------------
\* Claims about the playing field as a whole
\* ------------------------------------------------------------------------

IsResize == op' = "resize"

\* C22: resize(w2, h2) from screen (w1, h1) rescales the bounds
\* proportionally, x' = x * w2 / w1, y' = y * h2 / h1, width' = width * w2 /
\* w1, height' = height * h2 / h1, with right' = x' + width' and bottom' = y'
\* + height'; it keeps mode and progress and invokes the bounds callback
\* once.
C22_Resize ==
    [][IsResize =>
        LET b == field.bounds
            b2 == field'.bounds
            w1 == field.screenWidth
            h1 == field.screenHeight
            w2 == field'.screenWidth
            h2 == field'.screenHeight
        IN  /\ <<w2, h2>> \in Screens
            /\ b2.x * w1 = b.x * w2
            /\ b2.y * h1 = b.y * h2
            /\ b2.width * w1 = b.width * w2
            /\ b2.height * h1 = b.height * h2
            /\ b2.right = b2.x + b2.width
            /\ b2.bottom = b2.y + b2.height
            /\ field'.mode = field.mode
            /\ field'.moveProgress = field.moveProgress
            /\ cbLog' = <<b2>>]_vars

\* a field being moved, away from its default place, was resized to the
\* larger screen and is still being moved
C22_Witness ==
    /\ op = "resize"
    /\ field.mode = "moving"
    /\ prevMode = "moving"
    /\ field.screenWidth = 2000
    /\ field.bounds # calculateDefaultBounds(field.screenWidth,
                                             field.screenHeight)
    /\ cbLog = <<field.bounds>>

\* ------------------------------------------------------------------------
\* C23: the pinch measure
\* ------------------------------------------------------------------------

\* squared 2D distance between thumb tip and index tip
PinchDistance2 == Dist2(PalmAt(THUMB_TIP), PalmAt(INDEX_TIP))

\* The strength s = clamp01(1 - d / 160) is kept as the square of
\* min(d, 160), that is of 160 * (1 - s): s lies in [0,1] iff that square
\* lies in 0 .. 160 * 160, and s > 0.5 iff it is below 80 * 80.
StrengthIsClamped ==
    frame.pinchStrength =
        IF PinchDistance2 <= 160 * 160 THEN PinchDistance2 ELSE 160 * 160

StrengthInUnitRange ==
    frame.pinchStrength >= 0 /\ frame.pinchStrength <= 160 * 160

StrengthAboveHalf == frame.pinchStrength < 80 * 80

\* C23: with both tips usable and d their 2D distance, isPinching is true
\* exactly when d < 70 and pinchStrength = clamp01(1 - d / 160); the strength
\* lies in [0,1], isPinching implies pinchStrength > 0.5, and the grab
\* condition isPinching or pinchStrength > 0.5 is equivalent to pinchStrength
\* > 0.5.
C23_PinchMeasure ==
    IsClassified =>
        /\ frame.hand.isPinching <=> PinchDistance2 < 70 * 70
        /\ StrengthIsClamped
        /\ StrengthInUnitRange
        /\ frame.hand.isPinching => StrengthAboveHalf
        /\ frame.isHolding <=> StrengthAboveHalf

\* the tips are 75px apart: no pinch, yet a strength above 0.5 and a grab
C23_Witness ==
    /\ IsClassified
    /\ PinchDistance2 = 75 * 75
    /\ ~frame.hand.isPinching
    /\ StrengthAboveHalf
    /\ frame.isHolding

\* the tips are 200px apart: the strength is clamped to 0
C23_Clamped ==
    /\ IsClassified
    /\ PinchDistance2 = 200 * 200
    /\ frame.pinchStrength = 160 * 160

\* ------------------------------------------------------------------------
\* C24: the instantaneous velocity
\* ------------------------------------------------------------------------

LastSample == Retained[Len(Retained)]

PreviousSample == Retained[Len(Retained) - 1]

\* max(1, last.timestamp - previous.timestamp)
LastGap ==
    IF LastSample.timestamp - PreviousSample.timestamp >= 1
    THEN LastSample.timestamp - PreviousSample.timestamp
    ELSE 1

\* C24: with at least 2 retained samples, velocity = (last - previous) /
\* max(1, last.timestamp - previous.timestamp) * 16 per axis, two samples of
\* equal timestamps dividing by 1; with exactly two retained samples the
\* smoothed velocity equals the instantaneous velocity.
C24_InstantVelocity ==
    (frame.call = "velocity" /\ Len(Retained) >= 2) =>
        /\ frame.velocity.x * LastGap = (LastSample.x - PreviousSample.x) * 16
        /\ frame.velocity.y * LastGap = (LastSample.y - PreviousSample.y) * 16
        /\ LastSample.timestamp = PreviousSample.timestamp =>
               /\ frame.velocity.x = (LastSample.x - PreviousSample.x) * 16
               /\ frame.velocity.y = (LastSample.y - PreviousSample.y) * 16
        /\ Len(Retained) = 2 =>
               /\ frame.smoothedVelocity.x
                      = frame.velocity.x * frame.smoothedVelocity.totalWeight
               /\ frame.smoothedVelocity.y
                      = frame.velocity.y * frame.smoothedVelocity.totalWeight

\* exactly two samples retained, of equal timestamps, the palm having moved
\* 25px between them: both velocities are 400
C24_Witness ==
    /\ frame.call = "velocity"
    /\ Len(Retained) = 2
    /\ LastSample.timestamp = PreviousSample.timestamp
    /\ LastSample.x = PreviousSample.x + 25
    /\ frame.velocity = [x |-> 400, y |-> 400]
    /\ frame.smoothedVelocity.x = 400 * frame.smoothedVelocity.totalWeight

\* C25: in every state reachable through update, resize, resetToDefault and
\* setVisible with non-decreasing timestamps, mode = normal implies progress
\* = 0, mode = moving implies progress = 1, and mode = move-pending implies
\* 0 <= progress < 1.
C25_ModeProgress ==
    /\ field.mode = "normal" => field.moveProgress = 0
    /\ field.mode = "moving" => field.moveProgress = ProgressOne
    /\ field.mode = "move-pending" =>
           field.moveProgress >= 0 /\ field.moveProgress < ProgressOne

\* a hold one millisecond short of its duration, after a resize of the
\* pending field
C25_Witness ==
    /\ op = "resize"
    /\ field.mode = "move-pending"
    /\ field.moveProgress = ProgressOne - 1
    /\ now = ProgressOne - 1

\* ------------------------------------------------------------------------
\* C26: the derived edges
\* ------------------------------------------------------------------------

EdgesDerived(b) == b.right = b.x + b.width /\ b.bottom = b.y + b.height

\* C26: in every state between calls (after the constructor and after any
\* sequence of update, resize and resetToDefault) bounds.right = bounds.x +
\* bounds.width and bounds.bottom = bounds.y + bounds.height, for the bounds
\* getBounds() returns and for the value passed to the bounds callback.
C26_DerivedEdges ==
    /\ EdgesDerived(field.bounds)
    /\ \A i \in 1..Len(cbLog) : EdgesDerived(cbLog[i])

\* a field dragged into the top-left corner of the screen and locked there:
\* the callback received bounds whose edges are its size
C26_Witness ==
    /\ op = "update"
    /\ prevMode = "moving"
    /\ field.mode = "normal"
    /\ cbLog = <<field.bounds>>
    /\ field.bounds.x = 0
    /\ field.bounds.y = 0
    /\ field.bounds.right = field.bounds.width
    /\ field.bounds.bottom = field.bounds.height

\* ------------------------------------------------------------------------
\* C27: the bounds the consumer holds
\* ------------------------------------------------------------------------

\* the bounds the physics engine keeps as its playing-field bounds
ConsumerBounds == getPlayingFieldBounds(physics).bounds

\* C27: between two invocations of the bounds callback the bounds value the
\* consumer last received (the value the physics engine keeps as its
\* playing-field bounds) does not change, even while the field is being
\* moved in moving mode; the consumer's view changes only at lock, resize or
\* reset.
C27_AsStated ==
    [][(op' = "gameLoop" /\ cbLog' = <<>>) =>
            ConsumerBounds' = ConsumerBounds]_vars

\* ------------------------------------------------------------------------
\* C28: start and lock gestures
\* ------------------------------------------------------------------------

\* C28: for any single hand on any frame the start gesture and the lock
\* gesture of the same variant are never both true (fist variant:
\* isUpwardFacingFist and isOpenHand; palm variant: isValidOpenPalm and
\* hand.isFist), so a frame that would sustain or start a hold is never also
\* a lock frame.
C28_StartOrLock ==
    frame.call = "classify" =>
        /\ ~(frame.isUpwardFacingFist /\ frame.isOpenHand)
        /\ ~(frame.isValidOpenPalm /\ frame.hand.isFist)
        /\ \A v \in Variants : ~(frame.isStart[v] /\ frame.isLock[v])

\* an upward facing fist: the start gesture of the fist variant and the
\* lock gesture of the palm variant
C28_Witness ==
    /\ frame.call = "classify"
    /\ frame.isUpwardFacingFist
    /\ frame.hand.isFist
    /\ frame.isStart["fist"]
    /\ ~frame.isLock["fist"]
    /\ frame.isLock["palm"]
    /\ ~frame.isStart["palm"]

\* ------------------------------------------------------------------------
\* C29: pointing and fist
\* ------------------------------------------------------------------------

\* the middle, ring and little fingertips are all within 80px of the palm
\* centre
OthersWithin80 == \A k \in 2..4 : TipDistance2(k) < 80 * 80

\* C29 as the spec has it: for every landmark set the flags isPointing and
\* isFist computed by detect for the same hand are never both true (and in
\* the palm-start variant a pointing hand does not lock a field being moved).
C29_AsStated ==
    IsClassified =>
        /\ ~(frame.isPointing /\ frame.hand.isFist)
        /\ frame.isPointing => ~frame.isLock["palm"]

\* C29, amended: isPointing and isFist are never both true for a hand one
\* of whose middle, ring and little fingertips is 80px or more from the
\* palm centre, and such a pointing hand does not lock a field being moved
\* in the palm-start variant; a pointing hand whose three other fingertips
\* are all within 80px of the palm centre is a fist as well, and locks.
C29_PointingOrFist ==
    (IsClassified /\ frame.isPointing) =>
        /\ frame.hand.isFist <=> OthersWithin80
        /\ frame.isLock["palm"] <=> OthersWithin80

\* the index finger out and straight at 120px, the three other fingertips
\* 70px from the palm centre: pointing and a fist
C29_Witness ==
    /\ IsClassified
    /\ frame.isPointing
    /\ frame.hand.isFist
    /\ frame.isLock["palm"]
    /\ TipDistance2(1) = 120 * 120
    /\ \A k \in 2..4 : TipDistance2(k) = 70 * 70

\* ------------------------------------------------------------------------
\* C30: the lifetime of a grab
\* ------------------------------------------------------------------------

\* the step is a frame of hands given to the engine
IsHandsFrame == op' = "updateHandBodies"

\* a hand of that handedness is in the frame's hand list
Present(key) == \E i \in 1..Len(hands') : hands'[i].handedness = key

\* a hand of that handedness is in the frame's hand list and is not holding
PresentNotHolding(key) ==
    \E i \in 1..Len(hands') :
        /\ hands'[i].handedness = key
        /\ ~isHolding(GripData(hands'[i]))

\* the hand holds a grabbed object: recorded under its handedness, static
Grabbed(key) ==
    /\ physics.grabbedObjects[key] # NoGrab
    /\ physics.objects[objectAt(physics, physics.grabbedObjects[key])].isStatic

\* the object the hand held is static still, its grab entry kept
StillGrabbed(key) ==
    /\ physics'.grabbedObjects[key] = physics.grabbedObjects[key]
    /\ physics'.objects[objectAt(physics, physics.grabbedObjects[key])].isStatic

\* C30: an object grabbed by a hand (made static, recorded under that
\* handedness) stays static with its grab entry kept on every frame where
\* that handedness is absent from the hand list; it is released (made
\* non-static and given the throw velocity) only on a frame where a hand of
\* that handedness is present and is not holding.
C30_AsStated ==
    [][IsHandsFrame =>
        \A key \in HandKeys :
            Grabbed(key) =>
                /\ ~Present(key) => StillGrabbed(key)
                /\ ~StillGrabbed(key) => PresentNotHolding(key)]_vars

====
